---- MODULE Spec2Model ----
(***************************************************************************)
(* A model of the ACT processor simulator of x11-calc (x11-calc-cpu.c).    *)
(* The processor is a record; every C function that takes h_processor is   *)
(* an operator from a processor record to a processor record, and one tick *)
(* of the host loop is one action.  The ROM is determined lazily: a cell   *)
(* gets its content the first time the processor reads it and keeps it.    *)
(***************************************************************************)
EXTENDS Integers, Sequences, FiniteSets, TLC

\* ---------------------------------------------------------------- bounds
MaxTicks == 3
MaxTestTicks == 2

\* ------------------------------------------------------ program constants
REG_SIZE       == 14
EXP_SIZE       == 3
REGISTERS      == 8
DATA_REGISTERS == 2
STACK_SIZE     == 2
ROM_SIZE       == 3584
ROM_BANKS      == 1

NULL == "NULL"

A_REG == "A"
B_REG == "B"
C_REG == "C"
Y_REG == "Y"
Z_REG == "Z"
T_REG == "T"
M_REG == "M"
N_REG == "N"

RegNames == {A_REG, B_REG, C_REG, Y_REG, Z_REG, T_REG, M_REG, N_REG}

MODE           == "MODE"
CARRY          == "CARRY"
PREV_CARRY     == "PREV_CARRY"
DELAYED_ROM    == "DELAYED_ROM"
DISPLAY_ENABLE == "DISPLAY_ENABLE"
TIMER          == "TIMER"
TRACE          == "TRACE"

FlagNames == {MODE, CARRY, PREV_CARRY, DELAYED_ROM, DISPLAY_ENABLE, TIMER, TRACE}

\* -------------------------------------------------------- C integer helpers
RECURSIVE BitAndNat(_, _)
BitAndNat(a, b) ==
  IF a = 0 \/ b = 0 THEN 0
  ELSE (a % 2) * (b % 2) + 2 * BitAndNat(a \div 2, b \div 2)

RECURSIVE BitOrNat(_, _)
BitOrNat(a, b) ==
  IF a = 0 THEN b
  ELSE IF b = 0 THEN a
  ELSE (IF (a % 2) + (b % 2) > 0 THEN 1 ELSE 0) + 2 * BitOrNat(a \div 2, b \div 2)

\* x & m for a two's-complement int x and a mask 0 <= m < 2^16: only the low
\* sixteen bits of x matter, and those are x mod 2^16 also when x is negative.
BitAnd(x, m) == BitAndNat(x % 65536, m)

\* x | y for int operands; both operands are non-negative wherever the code
\* uses |, because the left one is always the result of a mask or a shift.
BitOr(x, y) == BitOrNat(x, y)

\* What a register nibble holds after the C assignment nibble[i] = v.
StoreNibble(v) == v % 256

\* ------------------------------------------------------- observation hooks
\* The working record carries, next to the processor's fields, what one tick
\* did: how often v_op_inc_pc ran, how often v_error was called, which ROM
\* cells were read, whether a nibble outside the register was addressed, the
\* value of CARRY when the closing v_op_inc_pc started, the bank
\* delayed_rom_switch applied to pc (-1 when it applied none), and how many
\* of the tick's two own trace statements wrote to the trace stream.
NoObs ==
  [inc_pc |-> 0, error |-> 0, reads |-> {}, oob |-> FALSE, carry |-> 0, commit |-> -1,
   trace |-> 0]

v_error(h) == [h EXCEPT !.obs.error = @ + 1]

\* ------------------------------------------------------------- registers
ZeroReg == [i \in 0..(REG_SIZE - 1) |-> 0]

RECURSIVE exch_loop(_, _, _, _)
exch_loop(h, d, s, i) ==
  IF i > h.last THEN h
  ELSE LET i_temp == h.reg[d][i]
           h1 == [h EXCEPT !.reg[d][i] = h.reg[s][i]]
           h2 == [h1 EXCEPT !.reg[s][i] = i_temp]
       IN exch_loop(h2, d, s, i + 1)

\* v_reg_exch starting at nibble 0 instead of first.
v_reg_exch_from_zero(h, h_destination, h_source) == exch_loop(h, h_destination, h_source, 0)

v_reg_exch(h, h_destination, h_source) == exch_loop(h, h_destination, h_source, h.first)

RECURSIVE copy_loop(_, _, _, _)
copy_loop(h, d, s, i) ==
  IF i > h.last THEN h
  ELSE LET i_temp == IF s # NULL THEN h.reg[s][i] ELSE 0
       IN copy_loop([h EXCEPT !.reg[d][i] = i_temp], d, s, i + 1)

v_reg_copy(h, h_destination, h_source) == copy_loop(h, h_destination, h_source, h.first)

\* v_reg_add carrying only when a nibble sum exceeds base.
RECURSIVE add_loop_carry_above_base(_, _, _, _, _)
add_loop_carry_above_base(h, d, s, a, i) ==
  IF i > h.last THEN h
  ELSE LET t0 == IF a # NULL THEN h.reg[a][i] ELSE 0
           t1 == h.reg[s][i] + t0 + h.flags[CARRY]
           t2 == IF t1 > h.base THEN t1 - h.base ELSE t1
           h1 == [h EXCEPT !.flags[CARRY] = IF t1 > h.base THEN 1 ELSE 0]
           h2 == IF d # NULL THEN [h1 EXCEPT !.reg[d][i] = StoreNibble(t2)] ELSE h1
       IN add_loop_carry_above_base(h2, d, s, a, i + 1)

RECURSIVE add_loop(_, _, _, _, _)
add_loop(h, d, s, a, i) ==
  IF i > h.last THEN h
  ELSE LET t0 == IF a # NULL THEN h.reg[a][i] ELSE 0
           t1 == h.reg[s][i] + t0 + h.flags[CARRY]
           t2 == IF t1 >= h.base THEN t1 - h.base ELSE t1
           h1 == [h EXCEPT !.flags[CARRY] = IF t1 >= h.base THEN 1 ELSE 0]
           h2 == IF d # NULL THEN [h1 EXCEPT !.reg[d][i] = StoreNibble(t2)] ELSE h1
       IN add_loop(h2, d, s, a, i + 1)

v_reg_add(h, h_destination, h_source, h_argument) ==
  add_loop(h, h_destination, h_source, h_argument, h.first)

\* v_reg_sub without the borrow between nibbles.
RECURSIVE sub_loop_no_borrow_in(_, _, _, _, _)
sub_loop_no_borrow_in(h, d, s, a, i) ==
  IF i > h.last THEN h
  ELSE LET t0 == IF a # NULL THEN h.reg[a][i] ELSE 0
           t1 == IF s # NULL THEN h.reg[s][i] - t0 ELSE 0 - t0
           t2 == IF i = h.first THEN t1 - h.flags[CARRY] ELSE t1
           t3 == IF t2 < 0 THEN t2 + h.base ELSE t2
           h1 == [h EXCEPT !.flags[CARRY] = IF t2 < 0 THEN 1 ELSE 0]
           h2 == IF d # NULL THEN [h1 EXCEPT !.reg[d][i] = StoreNibble(t3)] ELSE h1
       IN sub_loop_no_borrow_in(h2, d, s, a, i + 1)

RECURSIVE sub_loop(_, _, _, _, _)
sub_loop(h, d, s, a, i) ==
  IF i > h.last THEN h
  ELSE LET t0 == IF a # NULL THEN h.reg[a][i] ELSE 0
           t1 == IF s # NULL THEN h.reg[s][i] - t0 ELSE 0 - t0
           t2 == t1 - h.flags[CARRY]
           t3 == IF t2 < 0 THEN t2 + h.base ELSE t2
           h1 == [h EXCEPT !.flags[CARRY] = IF t2 < 0 THEN 1 ELSE 0]
           h2 == IF d # NULL THEN [h1 EXCEPT !.reg[d][i] = StoreNibble(t3)] ELSE h1
       IN sub_loop(h2, d, s, a, i + 1)

v_reg_sub(h, h_destination, h_source, h_argument) ==
  sub_loop(h, h_destination, h_source, h_argument, h.first)

RECURSIVE test_differs(_, _, _, _)
test_differs(h, d, s, i) ==
  IF i > h.last THEN FALSE
  ELSE LET i_temp == IF s # NULL THEN h.reg[s][i] ELSE 0
       IN IF h.reg[d][i] # i_temp THEN TRUE ELSE test_differs(h, d, s, i + 1)

\* v_reg_test_eq looking at the register from nibble 0 up to last.
v_reg_test_eq_from_zero(h, h_destination, h_source) ==
  [h EXCEPT !.flags[CARRY] = IF test_differs(h, h_destination, h_source, 0) THEN 1 ELSE 0]

v_reg_test_eq(h, h_destination, h_source) ==
  [h EXCEPT !.flags[CARRY] = IF test_differs(h, h_destination, h_source, h.first) THEN 1 ELSE 0]

\* v_reg_test_ne starting with CARRY clear: the branch is taken whatever
\* the field holds.
v_reg_test_ne_starts_clear(h, h_destination, h_source) ==
  [h EXCEPT !.flags[CARRY] = 0]

v_reg_test_ne(h, h_destination, h_source) ==
  [h EXCEPT !.flags[CARRY] = IF test_differs(h, h_destination, h_source, h.first) THEN 0 ELSE 1]

v_reg_inc(h, h_register) ==
  v_reg_add([h EXCEPT !.flags[CARRY] = 1], h_register, h_register, NULL)

RECURSIVE shr_loop(_, _, _)
shr_loop(h, r, i) ==
  IF i > h.last THEN h
  ELSE shr_loop([h EXCEPT !.reg[r][i] = IF i = h.last THEN 0 ELSE h.reg[r][i + 1]], r, i + 1)

v_reg_shr(h, h_register) ==
  shr_loop([h EXCEPT !.flags[CARRY] = 0], h_register, h.first)

RECURSIVE shl_loop(_, _, _)
shl_loop(h, r, i) ==
  IF i < h.first THEN h
  ELSE shl_loop([h EXCEPT !.reg[r][i] = IF i = h.first THEN 0 ELSE h.reg[r][i - 1]], r, i - 1)

\* v_reg_shl without the zero it shifts into nibble first.
v_reg_shl_keeps_first(h, h_register) ==
  LET h1 == shl_loop(h, h_register, h.last)
      h2 == IF h.first <= h.last
            THEN [h1 EXCEPT !.reg[h_register][h.first] = h.reg[h_register][h.first]]
            ELSE h1
  IN [h2 EXCEPT !.flags[CARRY] = 0, !.flags[PREV_CARRY] = 0]

v_reg_shl(h, h_register) ==
  LET h1 == shl_loop(h, h_register, h.last)
  IN [h1 EXCEPT !.flags[CARRY] = 0, !.flags[PREV_CARRY] = 0]

v_processor_clear_registers(h) ==
  [h EXCEPT !.first = 0, !.last = REG_SIZE - 1,
            !.reg = [r \in RegNames |-> ZeroReg],
            !.stack = [i \in 0..(STACK_SIZE - 1) |-> 0]]

v_processor_clear_data_registers(h) ==
  [h EXCEPT !.first = 0, !.last = REG_SIZE - 1,
            !.ram = [i \in 0..(DATA_REGISTERS - 1) |-> ZeroReg]]

\* The record h_processor_create allocates, before v_processor_init runs.
\* h_register_create zeroes every nibble; the fields v_processor_init does
\* not assign (address) and the stack are given the value the first
\* instruction that uses them would overwrite.
Allocated ==
  [reg |-> [r \in RegNames |-> ZeroReg],
   ram |-> [i \in 0..(DATA_REGISTERS - 1) |-> ZeroReg],
   stack |-> [i \in 0..(STACK_SIZE - 1) |-> 0],
   status |-> [i \in 0..15 |-> 0],
   flags |-> [g \in FlagNames |-> 0],
   pc |-> 0, sp |-> 0, p |-> 0, f |-> 0,
   first |-> 0, last |-> 0, base |-> 10,
   keycode |-> 0, keydown |-> 0, address |-> 0,
   delayed_rom_number |-> 0, rom_number |-> 0,
   obs |-> NoObs]

\* v_processor_init without the assignment to base.
v_processor_init_keeps_base(h) ==
  LET h1 == v_processor_clear_registers(h)
      h2 == v_processor_clear_data_registers(h1)
  IN [h2 EXCEPT !.status = [i \in 0..15 |-> IF i \in {3, 5} THEN 1 ELSE 0],
                !.flags = [g \in FlagNames |-> IF g = MODE THEN 1 ELSE 0],
                !.pc = 0, !.sp = 0, !.p = 0, !.f = 0,
                !.keycode = 0, !.keydown = 0,
                !.delayed_rom_number = 0, !.rom_number = 0]

v_processor_init(h) ==
  LET h1 == v_processor_clear_registers(h)
      h2 == v_processor_clear_data_registers(h1)
  IN [h2 EXCEPT !.status = [i \in 0..15 |-> IF i \in {3, 5} THEN 1 ELSE 0],
                !.flags = [g \in FlagNames |-> IF g = MODE THEN 1 ELSE 0],
                !.pc = 0, !.sp = 0, !.p = 0, !.f = 0,
                !.keycode = 0, !.keydown = 0, !.base = 10,
                !.delayed_rom_number = 0, !.rom_number = 0]

h_processor_create == v_processor_init(Allocated)

\* ------------------------------------------------------- control transfer
delayed_rom_switch(h) ==
  IF h.flags[DELAYED_ROM] # 0
  THEN [h EXCEPT !.pc = BitOr(h.delayed_rom_number * 256, BitAnd(h.pc, 255)),
                 !.flags[DELAYED_ROM] = 0,
                 !.obs.commit = h.delayed_rom_number]
  ELSE h

\* v_op_inc_pc without the line that clears CARRY.
v_op_inc_pc_keeps_carry(h) ==
  [h EXCEPT !.pc = IF h.pc >= ROM_SIZE - 1 THEN 0 ELSE h.pc + 1,
            !.flags[PREV_CARRY] = h.flags[CARRY],
            !.obs.inc_pc = @ + 1]

\* v_op_inc_pc without the wrap to 0 at the end of the ROM.
v_op_inc_pc_no_wrap(h) ==
  [h EXCEPT !.pc = h.pc + 1,
            !.flags[PREV_CARRY] = h.flags[CARRY],
            !.flags[CARRY] = 0,
            !.obs.inc_pc = @ + 1]

v_op_inc_pc(h) ==
  [h EXCEPT !.pc = IF h.pc >= ROM_SIZE - 1 THEN 0 ELSE h.pc + 1,
            !.flags[PREV_CARRY] = h.flags[CARRY],
            !.flags[CARRY] = 0,
            !.obs.inc_pc = @ + 1]

\* op_jsb setting pc to the target itself, not to the word before it.
op_jsb_no_adjust(h, i_count) ==
  LET h1 == [h EXCEPT !.stack[h.sp] = h.pc]
      h2 == [h1 EXCEPT !.sp = BitAnd(h1.sp + 1, STACK_SIZE - 1)]
      h3 == [h2 EXCEPT !.pc = BitOr(BitAnd(h2.pc, 65280), i_count)]
  IN delayed_rom_switch(h3)

\* op_jsb storing the return address after it has moved sp.
op_jsb_push_after_move(h, i_count) ==
  LET h1 == [h EXCEPT !.sp = BitAnd(h.sp + 1, STACK_SIZE - 1)]
      h2 == [h1 EXCEPT !.stack[h1.sp] = h.pc]
      h3 == [h2 EXCEPT !.pc = BitOr(BitAnd(h2.pc, 65280), i_count) - 1]
  IN delayed_rom_switch(h3)

op_jsb(h, i_count) ==
  LET h1 == [h EXCEPT !.stack[h.sp] = h.pc]
      h2 == [h1 EXCEPT !.sp = BitAnd(h1.sp + 1, STACK_SIZE - 1)]
      h3 == [h2 EXCEPT !.pc = BitOr(BitAnd(h2.pc, 65280), i_count) - 1]
  IN delayed_rom_switch(h3)

\* v_op_goto with the branch word replacing only the low byte of pc.
v_op_goto_same_page(h, rom) ==
  IF h.flags[PREV_CARRY] = 0
  THEN delayed_rom_switch([h EXCEPT !.pc = BitOr(BitAnd(h.pc, 65280), rom[h.pc] % 256) - 1,
                                    !.obs.reads = @ \cup {h.pc}])
  ELSE h

\* v_op_goto with delayed_rom_switch after the if instead of inside it.
v_op_goto_always_commits(h, rom) ==
  IF h.flags[PREV_CARRY] = 0
  THEN delayed_rom_switch([h EXCEPT !.pc = rom[h.pc] - 1, !.obs.reads = @ \cup {h.pc}])
  ELSE delayed_rom_switch(h)

v_op_goto(h, rom) ==
  IF h.flags[PREV_CARRY] = 0
  THEN delayed_rom_switch([h EXCEPT !.pc = rom[h.pc] - 1, !.obs.reads = @ \cup {h.pc}])
  ELSE h

\* The two tables rotated by one entry.
i_set_p_rotated == <<4, 7, 8, 11, 2, 10, 12, 1, 3, 13, 6, 0, 9, 5, 14, 14>>
i_tst_p_rotated == <<8, 12, 2, 9, 1, 6, 3, 1, 13, 5, 0, 11, 10, 7, 4, 4>>

\* ------------------------------------------------------------ the decoder
i_set_p == <<14, 4, 7, 8, 11, 2, 10, 12, 1, 3, 13, 6, 0, 9, 5, 14>>
i_tst_p == <<4, 8, 12, 2, 9, 1, 6, 3, 1, 13, 5, 0, 11, 10, 7, 4>>

\* A test instruction: v_op_inc_pc steps onto the branch word, v_op_goto
\* takes or declines the branch.
\* A test that does not step onto the branch word before v_op_goto.
test_and_goto_no_inc(h, rom) == v_op_goto(h, rom)

test_and_goto(h, rom) == v_op_goto(v_op_inc_pc(h), rom)

W_field(h) == [h EXCEPT !.first = 0, !.last = REG_SIZE - 1]

\* group 0 with a return that applies a pending delayed ROM selection.
group_0_return_commits(h, i_opcode) ==
  CASE (i_opcode \div 16) % 4 = 0 -> h
    [] (i_opcode \div 16) % 4 = 1 ->
         CASE i_opcode = \o0020 -> [h EXCEPT !.pc = BitAnd(h.pc, 3840) + h.keycode - 1]
           [] i_opcode = \o0420 -> [h EXCEPT !.base = 16]
           [] i_opcode = \o0620 -> [h EXCEPT !.p = IF h.p = 0 THEN REG_SIZE ELSE h.p - 1]
           [] i_opcode = \o0720 -> [h EXCEPT !.p = IF h.p = REG_SIZE THEN 0 ELSE h.p + 1]
           [] i_opcode = \o1020 ->
                LET h1 == [h EXCEPT !.sp = BitAnd(h.sp - 1, STACK_SIZE - 1)]
                IN delayed_rom_switch([h1 EXCEPT !.pc = h1.stack[h1.sp]])
           [] OTHER -> v_error(h)
    [] (i_opcode \div 16) % 4 = 2 ->
         [h EXCEPT !.pc = (i_opcode \div 64) * 256 + (h.pc % 256)]
    [] (i_opcode \div 16) % 4 = 3 ->
         CASE i_opcode = \o1160 ->
                LET h1 == [h EXCEPT !.address = h.reg[C_REG][1] * 16 + h.reg[C_REG][0]]
                IN IF h1.address >= ROM_SIZE * ROM_BANKS THEN v_error(h1) ELSE h1
           [] i_opcode = \o1260 -> v_processor_clear_data_registers(h)
           [] i_opcode = \o1760 -> h
           [] OTHER -> v_error(h)

\* group 0 with a select rom that adds the page to pc without first taking
\* pc modulo 256.
group_0_select_adds(h, i_opcode) ==
  CASE (i_opcode \div 16) % 4 = 0 -> h
    [] (i_opcode \div 16) % 4 = 1 ->
         CASE i_opcode = \o0020 -> [h EXCEPT !.pc = BitAnd(h.pc, 3840) + h.keycode - 1]
           [] i_opcode = \o0420 -> [h EXCEPT !.base = 16]
           [] i_opcode = \o0620 -> [h EXCEPT !.p = IF h.p = 0 THEN REG_SIZE ELSE h.p - 1]
           [] i_opcode = \o0720 -> [h EXCEPT !.p = IF h.p = REG_SIZE THEN 0 ELSE h.p + 1]
           [] i_opcode = \o1020 ->
                LET h1 == [h EXCEPT !.sp = BitAnd(h.sp - 1, STACK_SIZE - 1)]
                IN [h1 EXCEPT !.pc = h1.stack[h1.sp]]
           [] OTHER -> v_error(h)
    [] (i_opcode \div 16) % 4 = 2 ->
         [h EXCEPT !.pc = (i_opcode \div 64) * 256 + h.pc]
    [] (i_opcode \div 16) % 4 = 3 ->
         CASE i_opcode = \o1160 ->
                LET h1 == [h EXCEPT !.address = h.reg[C_REG][1] * 16 + h.reg[C_REG][0]]
                IN IF h1.address >= ROM_SIZE * ROM_BANKS THEN v_error(h1) ELSE h1
           [] i_opcode = \o1260 -> v_processor_clear_data_registers(h)
           [] i_opcode = \o1760 -> h
           [] OTHER -> v_error(h)

\* group 0 with a keys -> rom address that does not allow for the increment
\* that ends the tick.
group_0_key_no_adjust(h, i_opcode) ==
  CASE (i_opcode \div 16) % 4 = 0 -> h
    [] (i_opcode \div 16) % 4 = 1 ->
         CASE i_opcode = \o0020 -> [h EXCEPT !.pc = BitAnd(h.pc, 3840) + h.keycode]
           [] i_opcode = \o0420 -> [h EXCEPT !.base = 16]
           [] i_opcode = \o0620 -> [h EXCEPT !.p = IF h.p = 0 THEN REG_SIZE ELSE h.p - 1]
           [] i_opcode = \o0720 -> [h EXCEPT !.p = IF h.p = REG_SIZE THEN 0 ELSE h.p + 1]
           [] i_opcode = \o1020 ->
                LET h1 == [h EXCEPT !.sp = BitAnd(h.sp - 1, STACK_SIZE - 1)]
                IN [h1 EXCEPT !.pc = h1.stack[h1.sp]]
           [] OTHER -> v_error(h)
    [] (i_opcode \div 16) % 4 = 2 ->
         [h EXCEPT !.pc = (i_opcode \div 64) * 256 + (h.pc % 256)]
    [] (i_opcode \div 16) % 4 = 3 ->
         CASE i_opcode = \o1160 ->
                LET h1 == [h EXCEPT !.address = h.reg[C_REG][1] * 16 + h.reg[C_REG][0]]
                IN IF h1.address >= ROM_SIZE * ROM_BANKS THEN v_error(h1) ELSE h1
           [] i_opcode = \o1260 -> v_processor_clear_data_registers(h)
           [] i_opcode = \o1760 -> h
           [] OTHER -> v_error(h)

group_0(h, i_opcode) ==
  CASE (i_opcode \div 16) % 4 = 0 -> h
    [] (i_opcode \div 16) % 4 = 1 ->
         CASE i_opcode = \o0020 -> [h EXCEPT !.pc = BitAnd(h.pc, 3840) + h.keycode - 1]
           [] i_opcode = \o0420 -> [h EXCEPT !.base = 16]
           [] i_opcode = \o0620 -> [h EXCEPT !.p = IF h.p = 0 THEN REG_SIZE ELSE h.p - 1]
           [] i_opcode = \o0720 -> [h EXCEPT !.p = IF h.p = REG_SIZE THEN 0 ELSE h.p + 1]
           [] i_opcode = \o1020 ->
                LET h1 == [h EXCEPT !.sp = BitAnd(h.sp - 1, STACK_SIZE - 1)]
                IN [h1 EXCEPT !.pc = h1.stack[h1.sp]]
           [] OTHER -> v_error(h)
    [] (i_opcode \div 16) % 4 = 2 ->
         [h EXCEPT !.pc = (i_opcode \div 64) * 256 + (h.pc % 256)]
    [] (i_opcode \div 16) % 4 = 3 ->
         CASE i_opcode = \o1160 ->
                LET h1 == [h EXCEPT !.address = h.reg[C_REG][1] * 16 + h.reg[C_REG][0]]
                IN IF h1.address >= ROM_SIZE * ROM_BANKS THEN v_error(h1) ELSE h1
           [] i_opcode = \o1260 -> v_processor_clear_data_registers(h)
           [] i_opcode = \o1760 -> h
           [] OTHER -> v_error(h)

\* group 1 with a delayed select rom that keeps the bank already pending.
group_1_first_wins(h, i_opcode, rom) ==
  LET n == i_opcode \div 64
  IN CASE (i_opcode \div 16) % 4 = 0 -> [h EXCEPT !.status[n] = 1]
       [] (i_opcode \div 16) % 4 = 1 ->
            test_and_goto([h EXCEPT !.flags[CARRY] = IF h.status[n] # 1 THEN 1 ELSE 0], rom)
       [] (i_opcode \div 16) % 4 = 2 ->
            test_and_goto([h EXCEPT !.flags[CARRY] = IF h.p = i_tst_p[n + 1] THEN 0 ELSE 1], rom)
       [] (i_opcode \div 16) % 4 = 3 ->
            [h EXCEPT !.delayed_rom_number = IF h.flags[DELAYED_ROM] = 1 THEN @ ELSE n,
                      !.flags[DELAYED_ROM] = 1]

\* group 1 with an if 1 = s(n) that clears the bit it has tested, the sticky
\* bits excepted.
group_1_test_clears(h, i_opcode, rom) ==
  LET n == i_opcode \div 64
  IN CASE (i_opcode \div 16) % 4 = 0 -> [h EXCEPT !.status[n] = 1]
       [] (i_opcode \div 16) % 4 = 1 ->
            test_and_goto([h EXCEPT !.flags[CARRY] = IF h.status[n] # 1 THEN 1 ELSE 0,
                                    !.status[n] = IF n \in {1, 2, 5, 15} THEN @ ELSE 0], rom)
       [] (i_opcode \div 16) % 4 = 2 ->
            test_and_goto([h EXCEPT !.flags[CARRY] = IF h.p = i_tst_p[n + 1] THEN 0 ELSE 1], rom)
       [] (i_opcode \div 16) % 4 = 3 ->
            [h EXCEPT !.delayed_rom_number = n, !.flags[DELAYED_ROM] = 1]

group_1(h, i_opcode, rom) ==
  LET n == i_opcode \div 64
  IN CASE (i_opcode \div 16) % 4 = 0 -> [h EXCEPT !.status[n] = 1]
       [] (i_opcode \div 16) % 4 = 1 ->
            test_and_goto([h EXCEPT !.flags[CARRY] = IF h.status[n] # 1 THEN 1 ELSE 0], rom)
       [] (i_opcode \div 16) % 4 = 2 ->
            test_and_goto([h EXCEPT !.flags[CARRY] = IF h.p = i_tst_p[n + 1] THEN 0 ELSE 1], rom)
       [] (i_opcode \div 16) % 4 = 3 ->
            [h EXCEPT !.delayed_rom_number = n, !.flags[DELAYED_ROM] = 1]

group_2_sub_0(h, i_opcode) ==
  CASE i_opcode = \o0010 -> v_processor_clear_registers(h)
    [] i_opcode = \o0110 ->
         [h EXCEPT !.status = [i \in 0..15 |-> IF i \in {1, 2, 5, 15} THEN h.status[i] ELSE 0]]
    [] i_opcode = \o0210 ->
         [h EXCEPT !.flags[DISPLAY_ENABLE] = IF h.flags[DISPLAY_ENABLE] = 0 THEN 1 ELSE 0]
    [] i_opcode = \o0310 -> [h EXCEPT !.flags[DISPLAY_ENABLE] = 0]
    [] i_opcode = \o0410 -> v_reg_exch(W_field(h), M_REG, C_REG)
    [] i_opcode = \o0510 -> v_reg_copy(W_field(h), C_REG, M_REG)
    [] i_opcode = \o0610 -> v_reg_exch(W_field(h), N_REG, C_REG)
    [] i_opcode = \o0710 -> v_reg_copy(W_field(h), C_REG, N_REG)
    [] i_opcode = \o1010 ->
         v_reg_copy(v_reg_copy(v_reg_copy(W_field(h), A_REG, Y_REG), Y_REG, Z_REG), Z_REG, T_REG)
    [] i_opcode = \o1110 ->
         v_reg_exch(v_reg_exch(v_reg_exch(W_field(h), T_REG, C_REG), C_REG, Y_REG), Y_REG, Z_REG)
    [] i_opcode = \o1210 -> v_reg_copy(W_field(h), A_REG, Y_REG)
    [] i_opcode = \o1310 ->
         v_reg_copy(v_reg_copy(v_reg_copy(W_field(h), T_REG, Z_REG), Z_REG, Y_REG), Y_REG, C_REG)
    [] i_opcode = \o1410 -> [h EXCEPT !.base = 10]
    [] i_opcode = \o1610 -> [h EXCEPT !.reg[A_REG][0] = h.f]
    [] i_opcode = \o1710 -> [h EXCEPT !.reg[A_REG][0] = h.f, !.f = h.reg[A_REG][0]]
    [] OTHER -> v_error(h)

\* load n with a pointer that stays at 0 instead of wrapping to the top.
load_n_no_wrap(h, i_opcode) ==
  LET h1 == IF h.p \in 0..(REG_SIZE - 1)
            THEN [h EXCEPT !.reg[C_REG][h.p] = StoreNibble(i_opcode \div 64)]
            ELSE [h EXCEPT !.obs.oob = TRUE]
  IN [h1 EXCEPT !.p = IF h.p > 0 THEN h.p - 1 ELSE 0]

\* load n: nibble[p] of C is written; with p = REG_SIZE the write lands one
\* past the register, which the model records and otherwise leaves without
\* effect on the modelled fields.
load_n(h, i_opcode) ==
  LET h1 == IF h.p \in 0..(REG_SIZE - 1)
            THEN [h EXCEPT !.reg[C_REG][h.p] = StoreNibble(i_opcode \div 64)]
            ELSE [h EXCEPT !.obs.oob = TRUE]
  IN [h1 EXCEPT !.p = IF h.p > 0 THEN h.p - 1 ELSE REG_SIZE - 1]

\* group 2 with a down rotate that leaves out the last of its three
\* exchanges.
group_2_rotate_short(h, i_opcode) ==
  CASE i_opcode = \o1110 ->
         v_reg_exch(v_reg_exch(W_field(h), T_REG, C_REG), C_REG, Y_REG)
    [] i_opcode # \o1110 /\ (i_opcode \div 16) % 4 = 0 -> group_2_sub_0(h, i_opcode)
    [] (i_opcode \div 16) % 4 = 1 -> load_n(h, i_opcode)
    [] (i_opcode \div 16) % 4 = 2 -> v_error(h)
    [] (i_opcode \div 16) % 4 = 3 -> v_error(h)

\* group 2 with a clear s that spares no bit.
group_2_clear_s_all(h, i_opcode) ==
  CASE i_opcode = \o0110 -> [h EXCEPT !.status = [i \in 0..15 |-> 0]]
    [] i_opcode # \o0110 /\ (i_opcode \div 16) % 4 = 0 -> group_2_sub_0(h, i_opcode)
    [] (i_opcode \div 16) % 4 = 1 -> load_n(h, i_opcode)
    [] (i_opcode \div 16) % 4 = 2 -> v_error(h)
    [] (i_opcode \div 16) % 4 = 3 -> v_error(h)

group_2(h, i_opcode) ==
  CASE (i_opcode \div 16) % 4 = 0 -> group_2_sub_0(h, i_opcode)
    [] (i_opcode \div 16) % 4 = 1 -> load_n(h, i_opcode)
    [] (i_opcode \div 16) % 4 = 2 -> v_error(h)
    [] (i_opcode \div 16) % 4 = 3 -> v_error(h)

\* group 3 with a 0 -> s(n) that does not look at keydown.
group_3_ignores_key(h, i_opcode, rom) ==
  LET n == i_opcode \div 64
  IN CASE (i_opcode \div 16) % 4 = 0 ->
            IF n \in {5, 15}
            THEN [h EXCEPT !.status[15] = 0]
            ELSE [h EXCEPT !.status[n] = 0]
       [] (i_opcode \div 16) % 4 = 1 ->
            test_and_goto([h EXCEPT !.flags[CARRY] = IF h.status[n] # 0 THEN 1 ELSE 0], rom)
       [] (i_opcode \div 16) % 4 = 2 ->
            test_and_goto([h EXCEPT !.flags[CARRY] = IF h.p = i_tst_p[n + 1] THEN 1 ELSE 0], rom)
       [] (i_opcode \div 16) % 4 = 3 -> [h EXCEPT !.p = i_set_p[n + 1]]

group_3(h, i_opcode, rom) ==
  LET n == i_opcode \div 64
  IN CASE (i_opcode \div 16) % 4 = 0 ->
            IF n \in {5, 15}
            THEN (IF h.keydown = 0 THEN [h EXCEPT !.status[15] = 0] ELSE h)
            ELSE [h EXCEPT !.status[n] = 0]
       [] (i_opcode \div 16) % 4 = 1 ->
            test_and_goto([h EXCEPT !.flags[CARRY] = IF h.status[n] # 0 THEN 1 ELSE 0], rom)
       [] (i_opcode \div 16) % 4 = 2 ->
            test_and_goto([h EXCEPT !.flags[CARRY] = IF h.p = i_tst_p[n + 1] THEN 1 ELSE 0], rom)
       [] (i_opcode \div 16) % 4 = 3 -> [h EXCEPT !.p = i_set_p[n + 1]]

special(h, i_opcode, rom) ==
  CASE (i_opcode \div 4) % 4 = 0 -> group_0(h, i_opcode)
    [] (i_opcode \div 4) % 4 = 1 -> group_1(h, i_opcode, rom)
    [] (i_opcode \div 4) % 4 = 2 -> group_2(h, i_opcode)
    [] (i_opcode \div 4) % 4 = 3 -> group_3(h, i_opcode, rom)

\* The field modifier: sets first and last from bits 2-4 of the opcode.
set_field(h, i_field) ==
  CASE i_field = 0 ->
         LET h1 == [h EXCEPT !.first = h.p, !.last = h.p]
         IN IF h.p >= REG_SIZE THEN [v_error(h1) EXCEPT !.last = 0] ELSE h1
    [] i_field = 1 ->
         LET h1 == [h EXCEPT !.first = 0, !.last = h.p]
         IN IF h.p >= REG_SIZE THEN [v_error(h1) EXCEPT !.last = REG_SIZE - 1] ELSE h1
    [] i_field = 2 -> [h EXCEPT !.first = EXP_SIZE - 1, !.last = EXP_SIZE - 1]
    [] i_field = 3 -> [h EXCEPT !.first = 0, !.last = EXP_SIZE - 1]
    [] i_field = 4 -> [h EXCEPT !.first = REG_SIZE - 1, !.last = REG_SIZE - 1]
    [] i_field = 5 -> [h EXCEPT !.first = EXP_SIZE, !.last = REG_SIZE - 2]
    [] i_field = 6 -> [h EXCEPT !.first = 0, !.last = REG_SIZE - 1]
    [] i_field = 7 -> [h EXCEPT !.first = EXP_SIZE, !.last = REG_SIZE - 1]

set_carry(h) == [h EXCEPT !.flags[CARRY] = 1]

arithmetic_op(h, i_op, rom) ==
  CASE i_op = \o00 -> v_reg_copy(h, A_REG, NULL)
    [] i_op = \o01 -> v_reg_copy(h, B_REG, NULL)
    [] i_op = \o02 -> v_reg_exch(h, A_REG, B_REG)
    [] i_op = \o03 -> v_reg_copy(h, B_REG, A_REG)
    [] i_op = \o04 -> v_reg_exch(h, A_REG, C_REG)
    [] i_op = \o05 -> v_reg_copy(h, A_REG, C_REG)
    [] i_op = \o06 -> v_reg_copy(h, C_REG, B_REG)
    [] i_op = \o07 -> v_reg_exch(h, B_REG, C_REG)
    [] i_op = \o10 -> v_reg_copy(h, C_REG, NULL)
    [] i_op = \o11 -> v_reg_add(h, A_REG, A_REG, B_REG)
    [] i_op = \o12 -> v_reg_add(h, A_REG, A_REG, C_REG)
    [] i_op = \o13 -> v_reg_add(h, C_REG, C_REG, C_REG)
    [] i_op = \o14 -> v_reg_add(h, C_REG, C_REG, A_REG)
    [] i_op = \o15 -> v_reg_inc(h, A_REG)
    [] i_op = \o16 -> v_reg_shl(h, A_REG)
    [] i_op = \o17 -> v_reg_inc(h, C_REG)
    [] i_op = \o20 -> v_reg_sub(h, A_REG, A_REG, B_REG)
    [] i_op = \o21 -> v_reg_sub(h, C_REG, A_REG, C_REG)
    [] i_op = \o22 -> v_reg_sub(set_carry(h), A_REG, A_REG, NULL)
    [] i_op = \o23 -> v_reg_sub(set_carry(h), C_REG, C_REG, NULL)
    [] i_op = \o24 -> v_reg_sub(h, C_REG, NULL, C_REG)
    [] i_op = \o25 -> v_reg_sub(set_carry(h), C_REG, NULL, C_REG)
    [] i_op = \o26 -> test_and_goto(v_reg_test_eq(h, B_REG, NULL), rom)
    [] i_op = \o27 -> test_and_goto(v_reg_test_eq(h, C_REG, NULL), rom)
    [] i_op = \o30 -> test_and_goto(v_reg_sub(h, NULL, A_REG, C_REG), rom)
    [] i_op = \o31 -> test_and_goto(v_reg_sub(h, NULL, A_REG, B_REG), rom)
    [] i_op = \o32 -> test_and_goto(v_reg_test_ne(h, A_REG, NULL), rom)
    [] i_op = \o33 -> test_and_goto(v_reg_test_ne(h, C_REG, NULL), rom)
    [] i_op = \o34 -> v_reg_sub(h, A_REG, A_REG, C_REG)
    [] i_op = \o35 -> v_reg_shr(h, A_REG)
    [] i_op = \o36 -> v_reg_shr(h, B_REG)
    [] i_op = \o37 -> v_reg_shr(h, C_REG)
    [] OTHER -> v_error(h)

arithmetic(h, i_opcode, rom) ==
  arithmetic_op(set_field(h, (i_opcode \div 4) % 8), i_opcode \div 32, rom)

\* case 03 with the inner switch on the two bits above the class bits.
branch_on_next_bits(h, i_opcode) ==
  CASE (i_opcode \div 4) % 4 = 0 -> v_error(h)
    [] (i_opcode \div 4) % 4 = 1 -> v_error(h)
    [] (i_opcode \div 4) % 4 = 2 -> v_error(h)
    [] (i_opcode \div 4) % 4 = 3 ->
         LET h1 == IF h.flags[PREV_CARRY] = 0
                   THEN [h EXCEPT !.pc = BitOr(BitAnd(h.pc, 65280), i_opcode \div 4) - 1]
                   ELSE h
         IN delayed_rom_switch(h1)

\* case 03 of the outer switch.  The inner switch is on the same two bits
\* the outer switch has just found to be 3.
\* if nc goto looking at CARRY instead of PREV_CARRY.
branch_reads_carry(h, i_opcode) ==
  CASE i_opcode % 4 = 0 -> v_error(h)
    [] i_opcode % 4 = 1 -> v_error(h)
    [] i_opcode % 4 = 2 -> v_error(h)
    [] i_opcode % 4 = 3 ->
         LET h1 == IF h.flags[CARRY] = 0
                   THEN [h EXCEPT !.pc = BitOr(BitAnd(h.pc, 65280), i_opcode \div 4) - 1]
                   ELSE h
         IN delayed_rom_switch(h1)

branch(h, i_opcode) ==
  CASE i_opcode % 4 = 0 -> v_error(h)
    [] i_opcode % 4 = 1 -> v_error(h)
    [] i_opcode % 4 = 2 -> v_error(h)
    [] i_opcode % 4 = 3 ->
         LET h1 == IF h.flags[PREV_CARRY] = 0
                   THEN [h EXCEPT !.pc = BitOr(BitAnd(h.pc, 65280), i_opcode \div 4) - 1]
                   ELSE h
         IN delayed_rom_switch(h1)

\* Everything v_processor_tick does before its closing v_op_inc_pc.
execute(h, rom) ==
  LET i_opcode == rom[h.pc]
      h0 == [h EXCEPT !.obs.reads = @ \cup {h.pc}]
  IN CASE i_opcode % 4 = 0 -> special(h0, i_opcode, rom)
       [] i_opcode % 4 = 1 -> op_jsb(h0, i_opcode \div 4)
       [] i_opcode % 4 = 2 -> arithmetic(h0, i_opcode, rom)
       [] i_opcode % 4 = 3 -> branch(h0, i_opcode)

\* What a statement guarded by the TRACE flag does: it writes to the trace
\* stream and assigns nothing.
trace_print(h) == IF h.flags[TRACE] # 0 THEN [h EXCEPT !.obs.trace = @ + 1] ELSE h

\* v_processor_tick with the closing v_op_inc_pc inside the braces of the
\* trace statement before it.
v_processor_tick_inc_in_trace(h, rom) ==
  LET h1 == execute(trace_print(h), rom)
      h2 == [h1 EXCEPT !.obs.carry = h1.flags[CARRY]]
  IN IF h2.flags[TRACE] # 0 THEN v_op_inc_pc(trace_print(h2)) ELSE h2

v_processor_tick(h, rom) ==
  LET h1 == execute(trace_print(h), rom)
  IN v_op_inc_pc(trace_print([h1 EXCEPT !.obs.carry = h1.flags[CARRY]]))

\* ---------------------------------------------------------------- state
VARIABLES cpu, rom, hist

vars == <<cpu, rom, hist>>

\* The processor's own fields, without the observation hooks.
Proc(h) == [k \in (DOMAIN h) \ {"obs"} |-> h[k]]
Work(c) == c @@ [obs |-> NoObs]

\* The address v_op_inc_pc moves to from a.
NextAddr(a) == IF a >= ROM_SIZE - 1 THEN 0 ELSE a + 1

Init ==
  /\ cpu = Proc(h_processor_create)
  /\ rom = << >>
  /\ hist = << >>

\* One call of v_processor_tick by the host loop.  A ROM cell the processor
\* has not read before gets its content now: w if it is fetched as the
\* instruction, b if it is read as the branch word of a test.
Tick(I, T, N) ==
  /\ Len(hist) < N
  /\ \E w \in I, b \in T :
       LET a0 == cpu.pc
           a1 == NextAddr(a0)
           m == (rom @@ (a0 :> w)) @@ (a1 :> b)
           h == v_processor_tick(Work(cpu), m)
       IN /\ cpu' = Proc(h)
          /\ rom' = [a \in (DOMAIN rom) \cup h.obs.reads |-> m[a]]
          /\ hist' = Append(hist, [before |-> cpu, op |-> m[a0], obs |-> h.obs])

\* ------------------------------------------------------- instruction words
\* The encodings of the instruction set, from the case labels of the decoder.
nop                    == 0
return                 == \o1020
binary                 == \o0420
decimal                == \o1410
select_rom(n)          == n * 64 + \o40
delayed_select_rom(n)  == n * 64 + \o64
set_s(n)               == n * 64 + \o04
clr_s(n)               == n * 64 + \o14
if_1_s(n)              == n * 64 + \o24
if_0_s(n)              == n * 64 + \o34
if_p_eq(k)             == k * 64 + \o44
if_p_ne(k)             == k * 64 + \o54
load(n)                == n * 64 + \o30
jsb(t)                 == t * 4 + 1
if_nc_goto(t)          == t * 4 + 3
arith(i_op, i_field)   == i_op * 32 + i_field * 4 + 2

\* Field modifier codes.
F_P  == 0
F_WP == 1
F_XS == 2
F_X  == 3
F_S  == 4
F_M  == 5
F_W  == 6
F_MS == 7

\* Branch words a test instruction may be followed by: 0x123 (scenario 4 of
\* the specification), 0x050 and 0.
Targets == {291, 80, 0}

\* Control-flow programs.
Instrs ==
  { nop, return, binary, select_rom(3),
    delayed_select_rom(1), delayed_select_rom(2),
    jsb(80), jsb(0), if_nc_goto(72), if_nc_goto(0),
    arith(\o22, F_W), arith(\o15, F_W), arith(\o13, F_W),
    load(15), if_1_s(3), if_1_s(4) }

Next == Tick(Instrs, Targets, MaxTicks)

Spec == Init /\ [][Next]_vars

\* Carry programs: the carry-producing arithmetic instructions over the
\* eight fields, if nc goto, and a delayed ROM selection.
CarryInstrs ==
  { arith(\o15, F_W), arith(\o22, F_W), arith(\o23, F_W), arith(\o17, F_W),
    arith(\o13, F_W), arith(\o12, F_MS), arith(\o21, F_X), arith(\o24, F_W),
    arith(\o25, F_S), arith(\o11, F_WP), arith(\o20, F_P), arith(\o34, F_M),
    arith(\o14, F_XS),
    if_nc_goto(72), if_nc_goto(0), delayed_select_rom(2) }

NextCarry == Tick(CarryInstrs, Targets, MaxTicks)

SpecCarry == Init /\ [][NextCarry]_vars

\* Test programs: every kind of test instruction, with instructions that
\* change what the tests look at.
TestInstrs ==
  { if_1_s(3), if_1_s(4), if_0_s(3), if_0_s(4),
    if_p_eq(11), if_p_ne(11),
    arith(\o26, F_W), arith(\o27, F_W), arith(\o30, F_W), arith(\o31, F_W),
    arith(\o32, F_W), arith(\o33, F_W),
    arith(\o15, F_W), arith(\o17, F_W), \o0720,
    select_rom(3), delayed_select_rom(2) }

NextTest == Tick(TestInstrs, Targets, MaxTestTicks)

SpecTest == Init /\ [][NextTest]_vars

\* ---------------------------------------------------------------- claims
Ticked == Len(hist) > 0
Last   == hist[Len(hist)]

\* C1: after every tick CARRY is 0, and PREV_CARRY is the value CARRY held
\* when the closing v_op_inc_pc of that tick started.
C1_CarryLatched ==
  /\ cpu.flags[CARRY] = 0
  /\ Ticked => cpu.flags[PREV_CARRY] = Last.obs.carry

\* A tick whose instruction left a carry: it is latched and CARRY is clear.
C1_Witness ==
  /\ Ticked
  /\ Last.obs.carry = 1
  /\ cpu.flags[PREV_CARRY] = 1
  /\ cpu.flags[CARRY] = 0

\* The tick before the last one.
Ticked2 == Len(hist) > 1
Prev    == hist[Len(hist) - 1]

\* The instruction classes the claims speak of, by opcode.
IsSpecial(op)  == op % 4 = 0
IsJsb(op)      == op % 4 = 1
IsArith(op)    == op % 4 = 2
IsIfNcGoto(op) == op % 4 = 3
Group(op)      == (op \div 4) % 4
SubGroup(op)   == (op \div 16) % 4
IsTest(op) ==
  \/ IsSpecial(op) /\ Group(op) \in {1, 3} /\ SubGroup(op) \in {1, 2}
  \/ IsArith(op) /\ (op \div 32) \in {\o26, \o27, \o30, \o31, \o32, \o33}
IsDelayedSelect(op) == IsSpecial(op) /\ Group(op) = 1 /\ SubGroup(op) = 3
\* add, subtract, increment, decrement, negate
IsCarryArith(op) ==
  IsArith(op) /\ (op \div 32) \in
    {\o11, \o12, \o13, \o14, \o15, \o17, \o20, \o21, \o22, \o23, \o24, \o25, \o34}

Page(a)   == (a \div 256) * 256
Offset(a) == a % 256

\* The field [lo..hi] of register r of processor c read as a number in
\* radix c.base, nibble lo least significant.
RECURSIVE FieldValue(_, _, _, _)
FieldValue(c, r, lo, hi) ==
  IF lo > hi THEN 0 ELSE c.reg[r][lo] + c.base * FieldValue(c, r, lo + 1, hi)

\* Whether the condition of the test instruction of tick e is true in the
\* state the tick started from; lo..hi is the field the decoder selected.
TestTrue(e, lo, hi) ==
  LET b == e.before
      n == e.op \div 64
  IN IF IsSpecial(e.op)
     THEN CASE Group(e.op) = 1 /\ SubGroup(e.op) = 1 -> b.status[n] = 1
            [] Group(e.op) = 1 /\ SubGroup(e.op) = 2 -> b.p = i_tst_p[n + 1]
            [] Group(e.op) = 3 /\ SubGroup(e.op) = 1 -> b.status[n] = 0
            [] Group(e.op) = 3 /\ SubGroup(e.op) = 2 -> b.p # i_tst_p[n + 1]
            [] OTHER -> FALSE
     ELSE CASE e.op \div 32 = \o26 -> FieldValue(b, B_REG, lo, hi) = 0
            [] e.op \div 32 = \o27 -> FieldValue(b, C_REG, lo, hi) = 0
            [] e.op \div 32 = \o30 -> FieldValue(b, A_REG, lo, hi) >= FieldValue(b, C_REG, lo, hi)
            [] e.op \div 32 = \o31 -> FieldValue(b, A_REG, lo, hi) >= FieldValue(b, B_REG, lo, hi)
            [] e.op \div 32 = \o32 -> FieldValue(b, A_REG, lo, hi) # 0
            [] e.op \div 32 = \o33 -> FieldValue(b, C_REG, lo, hi) # 0
            [] OTHER -> FALSE

\* The last tick was a test instruction whose condition was true.
TestTaken == Ticked /\ IsTest(Last.op) /\ TestTrue(Last, cpu.first, cpu.last)

\* The branch word that follows the instruction of the last tick.
BranchWord == rom[NextAddr(Last.before.pc)]

\* An arithmetic instruction followed, in the very next tick, by if nc goto.
ArithThenIfNc == Ticked2 /\ IsCarryArith(Prev.op) /\ IsIfNcGoto(Last.op)

\* Where C2 says the if nc goto goes.
C2_Target ==
  IF Prev.obs.carry = 0
  THEN Page(Last.before.pc) + (Last.op \div 4)
  ELSE NextAddr(Last.before.pc)

\* C2 as stated: after an arithmetic instruction, the if nc goto of the next
\* tick goes to (pc & 0xff00) | t exactly when the arithmetic instruction
\* left no carry, and to the following word when it left one.
C2_Original == ArithThenIfNc => cpu.pc = C2_Target

\* C2: the same, when no delayed ROM selection is pending as the if nc goto
\* starts.
C2_CarryDecidesBranch ==
  (ArithThenIfNc /\ Last.before.flags[DELAYED_ROM] = 0) => cpu.pc = C2_Target

\* An arithmetic instruction that borrowed, and the if nc goto after it
\* falling through to the next word rather than jumping.
C2_Witness ==
  /\ ArithThenIfNc
  /\ Last.before.flags[DELAYED_ROM] = 0
  /\ Prev.obs.carry = 1
  /\ Last.op \div 4 = 72
  /\ cpu.pc = NextAddr(Last.before.pc)

\* C3 as stated: v_op_inc_pc runs exactly once in every tick.
C3_Original == Ticked => Last.obs.inc_pc = 1

\* C3: v_op_inc_pc runs exactly once in every tick, except in the tick of a
\* test instruction, where it runs exactly twice; the only ROM cells a tick
\* reads are its instruction and, for a test, the branch word after it.
C3_AdvanceCount ==
  Ticked =>
    /\ Last.obs.inc_pc = IF IsTest(Last.op) THEN 2 ELSE 1
    /\ Last.before.pc \in Last.obs.reads
    /\ Last.obs.reads \subseteq
         ({Last.before.pc} \cup
          IF IsTest(Last.op) THEN {NextAddr(Last.before.pc)} ELSE {})

\* A declined test: pc has moved two words on.
C3_Witness ==
  /\ Ticked
  /\ IsTest(Last.op)
  /\ ~TestTrue(Last, cpu.first, cpu.last)
  /\ Last.obs.inc_pc = 2
  /\ cpu.pc = NextAddr(NextAddr(Last.before.pc))

\* C4 as stated: a test whose condition is true replaces the low 8 bits of
\* pc by the branch word's target and keeps the bits above bit 7.
C4_Original ==
  TestTaken => cpu.pc = Page(Last.before.pc) + Offset(BranchWord)

\* C4: a test whose condition is true, with no delayed ROM selection
\* pending, makes pc the whole branch word: the bits of pc above bit 7 are
\* taken from the word, not kept.
C4_TakenTestTarget ==
  (TestTaken /\ Last.before.flags[DELAYED_ROM] = 0) => cpu.pc = BranchWord

\* A taken test on page 3 whose branch word is 0x123: pc is 0x123.
C4_Witness ==
  /\ TestTaken
  /\ Last.before.flags[DELAYED_ROM] = 0
  /\ Page(Last.before.pc) = 768
  /\ BranchWord = 291
  /\ cpu.pc = 291

\* The last tick was a control transfer made while a delayed ROM selection
\* was pending: a jsb, a taken if nc goto, or a taken test branch.
Commits ==
  /\ Ticked
  /\ Last.before.flags[DELAYED_ROM] = 1
  /\ \/ IsJsb(Last.op)
     \/ IsIfNcGoto(Last.op) /\ Last.before.flags[PREV_CARRY] = 0
     \/ TestTaken

\* The offset t that control transfer names.
TransferOffset == IF IsTest(Last.op) THEN Offset(BranchWord) ELSE Last.op \div 4

\* C5: a control transfer to offset t made while delayed select rom n is
\* pending leaves pc = (n << 8) | t and DELAYED_ROM = 0.
C5_Original ==
  Commits =>
    /\ cpu.pc = Last.before.delayed_rom_number * 256 + TransferOffset
    /\ cpu.flags[DELAYED_ROM] = 0

\* Not a control transfer in the sense of C6.
NonTransfer(op) == ~IsJsb(op) /\ ~IsIfNcGoto(op) /\ ~IsTest(op)

PendingNonTransfer ==
  Ticked /\ Last.before.flags[DELAYED_ROM] = 1 /\ NonTransfer(Last.op)

\* C6 as stated: with a selection pending, an instruction that is not a
\* control transfer leaves DELAYED_ROM = 1, delayed_bank and the page bits
\* of pc as they were.
C6_Original ==
  PendingNonTransfer =>
    /\ cpu.flags[DELAYED_ROM] = 1
    /\ cpu.delayed_rom_number = Last.before.delayed_rom_number
    /\ Page(cpu.pc) = Page(Last.before.pc)

\* The last tick run again from the same state with nothing pending.
NoPendingRun ==
  v_processor_tick(Work([Last.before EXCEPT !.flags[DELAYED_ROM] = 0]), rom)

\* C6: with a selection pending, an instruction that is not a control
\* transfer leaves DELAYED_ROM = 1 and commits nothing; delayed_bank is
\* unchanged unless the instruction is itself a delayed select rom; and pc
\* moves exactly as the same instruction moves it when nothing is pending.
C6_PendingSurvives ==
  PendingNonTransfer =>
    /\ cpu.flags[DELAYED_ROM] = 1
    /\ Last.obs.commit = -1
    /\ ~IsDelayedSelect(Last.op) =>
         cpu.delayed_rom_number = Last.before.delayed_rom_number
    /\ cpu.pc = NoPendingRun.pc

\* select rom 3 executed while bank 2 is pending: pc is on page 3 and bank 2
\* is still pending.
C6_Witness ==
  /\ PendingNonTransfer
  /\ Last.op = select_rom(3)
  /\ Last.before.delayed_rom_number = 2
  /\ Page(cpu.pc) = 768
  /\ cpu.flags[DELAYED_ROM] = 1
  /\ cpu.delayed_rom_number = 2

\* The bank named by the most recent delayed select rom among the first k
\* ticks (-1 if there is none).
RECURSIVE LatestSelect(_)
LatestSelect(k) ==
  IF k = 0 THEN -1
  ELSE IF IsDelayedSelect(hist[k].op) THEN hist[k].op \div 64
  ELSE LatestSelect(k - 1)

\* C7: delayed select rom n changes delayed_bank to n, DELAYED_ROM to 1 and,
\* through the closing PC advance, pc to the next word (on the same page,
\* unless the instruction is the last word of its page) and the carry pair;
\* nothing else.  The bank a later commit applies is the one named by the
\* most recent delayed select rom.
C7_DelayedSelect ==
  /\ (Ticked /\ IsDelayedSelect(Last.op)) =>
       /\ cpu = [Last.before EXCEPT
                   !.delayed_rom_number = Last.op \div 64,
                   !.flags[DELAYED_ROM] = 1,
                   !.flags[PREV_CARRY] = Last.before.flags[CARRY],
                   !.flags[CARRY] = 0,
                   !.pc = NextAddr(Last.before.pc)]
       /\ Offset(Last.before.pc) # 255 => Page(cpu.pc) = Page(Last.before.pc)
  /\ (Ticked /\ Last.obs.commit # -1) =>
       Last.obs.commit = LatestSelect(Len(hist) - 1)

\* delayed select rom 1, delayed select rom 2, then a committing transfer:
\* bank 2 is applied.
C7_Witness ==
  /\ Len(hist) = 3
  /\ hist[1].op = delayed_select_rom(1)
  /\ hist[2].op = delayed_select_rom(2)
  /\ Last.obs.commit = 2
  /\ cpu.flags[DELAYED_ROM] = 0

\* C8: when a control transfer commits a pending selection, rom_number
\* becomes delayed_bank.
C8_Original ==
  (Ticked /\ Last.obs.commit # -1) => cpu.rom_number = Last.before.delayed_rom_number

\* C9: jsb t stores pc in stack[sp], advances sp modulo STACK_SIZE and, with
\* no delayed ROM selection pending, continues at (pc & 0xff00) | t.
C9_Jsb ==
  (Ticked /\ IsJsb(Last.op)) =>
    /\ cpu.stack[Last.before.sp] = Last.before.pc
    /\ cpu.sp = (Last.before.sp + 1) % STACK_SIZE
    /\ Last.before.flags[DELAYED_ROM] = 0 =>
         cpu.pc = Page(Last.before.pc) + (Last.op \div 4)

\* jsb 0 on page 3 with sp = STACK_SIZE - 1: pc is the first word of page 3
\* and sp has wrapped to 0.
C9_Witness ==
  /\ Ticked
  /\ Last.op = jsb(0)
  /\ Last.before.flags[DELAYED_ROM] = 0
  /\ Page(Last.before.pc) = 768
  /\ Last.before.sp = STACK_SIZE - 1
  /\ cpu.pc = 768
  /\ cpu.sp = 0
  /\ cpu.stack[STACK_SIZE - 1] = Last.before.pc

\* C10: every nibble of every register is below the current base.
C10_Original ==
  /\ \A r \in RegNames : \A i \in 0..(REG_SIZE - 1) : cpu.reg[r][i] \in 0..(cpu.base - 1)
  /\ \A k \in 0..(DATA_REGISTERS - 1) : \A i \in 0..(REG_SIZE - 1) :
       cpu.ram[k][i] \in 0..(cpu.base - 1)

\* ------------------------------------------------- arithmetic programs
MaxArithTicks == 1

\* Register contents the instruction set can build: load n puts any value
\* 0..15 into any nibble of C (p is set by p <- n), and a exch c[w] and
\* b exch c[w] move the result into A and B.
Zeros == ZeroReg
Nines == [i \in 0..(REG_SIZE - 1) |-> 9]
Mix1  == [i \in 0..(REG_SIZE - 1) |-> (3 * i + 1) % 10]
Mix2  == [i \in 0..(REG_SIZE - 1) |-> (7 * i + 5) % 10]
LowF  == [i \in 0..(REG_SIZE - 1) |-> IF i = 0 THEN 15 ELSE 0]
Effs  == [i \in 0..(REG_SIZE - 1) |-> 15]
LowTen == [i \in 0..(REG_SIZE - 1) |-> IF i = 1 THEN 1 ELSE 0]

\* The contents of A, B and C an arithmetic program starts from.
ArithOperands ==
  { <<Mix1, Zeros, Mix1>>, <<Mix1, Mix2, Nines>>, <<Mix2, Nines, Zeros>>,
    <<LowF, Zeros, LowF>>, <<Effs, Effs, Effs>>, <<Zeros, Mix2, Mix1>>,
    <<LowF, Zeros, LowTen>> }

\* The operands a program in base 16 starts from.
HexOperands ==
  { <<Mix1, Mix2, Nines>>, <<LowF, Zeros, LowF>>, <<Effs, Effs, Effs>> }

\* The operands a program starts from with p = REG_SIZE, the value
\* p - 1 -> p leaves when p was 0, in base 10 and in base 16.
EndOperands == { <<Mix1, Zeros, Mix1, 10>>, <<Effs, Effs, Effs, 16>> }

\* The value of p the other programs start from, inside the mantissa.
ArithP == 5

\* The processor after a program has loaded A, B and C, set p and chosen
\* the base (binary or decimal).
Loaded(t, q, bs) ==
  [Proc(h_processor_create) EXCEPT
     !.reg[A_REG] = t[1], !.reg[B_REG] = t[2], !.reg[C_REG] = t[3],
     !.p = q, !.base = bs]

ArithStarts ==
  { Loaded(t, ArithP, 10) : t \in ArithOperands }
    \cup { Loaded(t, ArithP, 16) : t \in HexOperands }
    \cup { Loaded(t, REG_SIZE, t[4]) : t \in EndOperands }

InitArith ==
  /\ cpu \in ArithStarts
  /\ rom = << >>
  /\ hist = << >>

\* Every arithmetic-class instruction over every field.
ArithInstrs == { arith(i_op, i_field) : i_op \in 0..31, i_field \in 0..7 }

\* The branch word of scenario 6 of the specification: goto 0x080.
ArithTargets == {128}

NextArith == Tick(ArithInstrs, ArithTargets, MaxArithTicks)

SpecArith == InitArith /\ [][NextArith]_vars

\* ------------------------------------------------ claims on arithmetic
\* The window the decoder selected in the last tick.
First == cpu.first
Lst   == cpu.last
InField(i) == First <= i /\ i <= Lst
FieldLen == IF First > Lst THEN 0 ELSE Lst - First + 1

RECURSIVE Pow(_, _)
Pow(b, n) == IF n = 0 THEN 1 ELSE b * Pow(b, n - 1)

\* The operation code and the field code of an arithmetic instruction.
OpOf(op)    == op \div 32
FieldOf(op) == (op \div 4) % 8

\* The last tick executed an arithmetic-class instruction.
ArithTick == Ticked /\ IsArith(Last.op)

\* Every nibble of A, B and C was below base when the last tick started.
OperandsBelowBase ==
  \A r \in {A_REG, B_REG, C_REG} : \A i \in 0..(REG_SIZE - 1) :
    Last.before.reg[r][i] < Last.before.base

\* A field of up to fourteen nibbles read as a number, kept in two limbs of at
\* most seven nibbles each so that every intermediate value fits a machine
\* integer: the number is hi * base^LowLen + lo.
LowTop  == IF Lst - First >= 7 THEN First + 6 ELSE Lst
LowLen  == IF First > Lst THEN 0 ELSE LowTop - First + 1
HighLen == FieldLen - LowLen
Limbs(c, r) ==
  [lo |-> FieldValue(c, r, First, LowTop), hi |-> FieldValue(c, r, LowTop + 1, Lst)]
One  == [lo |-> 1, hi |-> 0]
Zero == [lo |-> 0, hi |-> 0]

\* x + y and x - y - k on such numbers: the value modulo base^FieldLen, and
\* whether the exact result reaches base^FieldLen (resp. is negative).
PlusLo(x, y)   == x.lo + y.lo
PlusHi(x, y)   == x.hi + y.hi + (IF PlusLo(x, y) >= Pow(cpu.base, LowLen) THEN 1 ELSE 0)
Plus(x, y)     == [lo |-> PlusLo(x, y) % Pow(cpu.base, LowLen),
                   hi |-> PlusHi(x, y) % Pow(cpu.base, HighLen)]
PlusOut(x, y)  == PlusHi(x, y) >= Pow(cpu.base, HighLen)
MinusLo(x, y, k)  == x.lo - y.lo - k
MinusHi(x, y, k)  == x.hi - y.hi - (IF MinusLo(x, y, k) < 0 THEN 1 ELSE 0)
Minus(x, y, k)    == [lo |-> MinusLo(x, y, k) % Pow(cpu.base, LowLen),
                      hi |-> MinusHi(x, y, k) % Pow(cpu.base, HighLen)]
MinusOut(x, y, k) == MinusHi(x, y, k) < 0

\* The field of register r before and after the last tick, as numbers.
Old(r) == Limbs(Last.before, r)
New(r) == Limbs(cpu, r)

\* The test of the last tick took its branch: v_op_goto read the branch word.
BranchTaken == NextAddr(Last.before.pc) \in Last.obs.reads

\* The window table of the specification, by field code, for pointer q.
FieldTable(f, q) ==
  CASE f = F_P  -> <<q, q>>
    [] f = F_WP -> <<0, q>>
    [] f = F_XS -> <<2, 2>>
    [] f = F_X  -> <<0, 1>>
    [] f = F_S  -> <<13, 13>>
    [] f = F_M  -> <<3, 12>>
    [] f = F_W  -> <<0, 13>>
    [] f = F_MS -> <<3, 13>>

\* C12: an arithmetic instruction executed with p in 0..13 selects the
\* window the table gives for its field code: P = [p..p], WP = [0..p],
\* XS = [2..2], X = [0..1], S = [13..13], M = [3..12], W = [0..13],
\* MS = [3..13].
C12_Original ==
  (ArithTick /\ Last.before.p \in 0..(REG_SIZE - 1)) =>
    <<cpu.first, cpu.last>> = FieldTable(FieldOf(Last.op), Last.before.p)

\* Operation codes of the add instructions and the increments, with the
\* registers they name: destination, first operand, second operand (NULL
\* for the constant 1 of an increment).
AddOps ==
  [op \in {\o11, \o12, \o13, \o14, \o15, \o17} |->
     CASE op = \o11 -> <<A_REG, A_REG, B_REG>>
       [] op = \o12 -> <<A_REG, A_REG, C_REG>>
       [] op = \o13 -> <<C_REG, C_REG, C_REG>>
       [] op = \o14 -> <<C_REG, A_REG, C_REG>>
       [] op = \o15 -> <<A_REG, A_REG, NULL>>
       [] op = \o17 -> <<C_REG, C_REG, NULL>>]

\* The last tick was an add or an increment on operands below base.
AddTick ==
  ArithTick /\ OpOf(Last.op) \in DOMAIN AddOps /\ OperandsBelowBase

\* The operands x and y of C13 for the last tick.
AddX == Old(AddOps[OpOf(Last.op)][2])
AddY == IF AddOps[OpOf(Last.op)][3] = NULL THEN One ELSE Old(AddOps[OpOf(Last.op)][3])

\* C13: on operands below base, an add or an increment replaces the field
\* of the destination by (x + y) mod base^len and leaves PREV_CARRY = 1 after
\* the tick exactly when x + y >= base^len.
C13_Add ==
  AddTick =>
    /\ New(AddOps[OpOf(Last.op)][1]) = Plus(AddX, AddY)
    /\ cpu.flags[PREV_CARRY] = (IF PlusOut(AddX, AddY) THEN 1 ELSE 0)

\* c + 1 -> c[w] in base 16 on C = ...000F: C = ...0010 and no carry.
C13_Witness ==
  /\ AddTick
  /\ Last.op = arith(\o17, F_W)
  /\ cpu.base = 16
  /\ Last.before.reg[C_REG] = LowF
  /\ cpu.reg[C_REG] = LowTen
  /\ cpu.flags[PREV_CARRY] = 0

\* Operation codes of the subtract instructions, with the registers they
\* name: destination, minuend (NULL for 0), subtrahend (NULL for 0), and the
\* constant k that is subtracted as well.
SubOps ==
  [op \in {\o20, \o21, \o22, \o23, \o24, \o25, \o34} |->
     CASE op = \o20 -> <<A_REG, A_REG, B_REG, 0>>
       [] op = \o21 -> <<C_REG, A_REG, C_REG, 0>>
       [] op = \o22 -> <<A_REG, A_REG, NULL, 1>>
       [] op = \o23 -> <<C_REG, C_REG, NULL, 1>>
       [] op = \o24 -> <<C_REG, NULL, C_REG, 0>>
       [] op = \o25 -> <<C_REG, NULL, C_REG, 1>>
       [] op = \o34 -> <<A_REG, A_REG, C_REG, 0>>]

\* The last tick was a subtract on operands below base.
SubTick ==
  ArithTick /\ OpOf(Last.op) \in DOMAIN SubOps /\ OperandsBelowBase

\* The operands x, y and k of C14 for the last tick.
SubX == IF SubOps[OpOf(Last.op)][2] = NULL THEN Zero ELSE Old(SubOps[OpOf(Last.op)][2])
SubY == IF SubOps[OpOf(Last.op)][3] = NULL THEN Zero ELSE Old(SubOps[OpOf(Last.op)][3])
SubK == SubOps[OpOf(Last.op)][4]

\* C14: on operands below base, a subtract replaces the field of the
\* destination by (x - y - k) mod base^len and leaves PREV_CARRY = 1 after the
\* tick exactly when x - y - k < 0, also when the destination is the
\* subtrahend register.
C14_Sub ==
  SubTick =>
    /\ New(SubOps[OpOf(Last.op)][1]) = Minus(SubX, SubY, SubK)
    /\ cpu.flags[PREV_CARRY] = (IF MinusOut(SubX, SubY, SubK) THEN 1 ELSE 0)

\* a - c -> c[w] with A = 0 and C = Mix1 in base 10: the destination is the
\* subtrahend, the result is the ten's complement of C and a borrow is left.
C14_Witness ==
  /\ SubTick
  /\ Last.op = arith(\o21, F_W)
  /\ cpu.base = 10
  /\ Last.before.reg[A_REG] = Zeros
  /\ Last.before.reg[C_REG] = Mix1
  /\ cpu.reg[C_REG][0] = 9
  /\ cpu.reg[C_REG][1] = 5
  /\ cpu.flags[PREV_CARRY] = 1

\* The sign of (field of x) - (field of y) in processor c, both read as
\* numbers in radix c.base: the difference is accumulated from the most
\* significant nibble down and clamped at a magnitude the nibbles below can
\* no longer outweigh (a nibble is at most 255).
Clamp(v) == IF v > 1000 THEN 1000 ELSE IF v < -1000 THEN -1000 ELSE v

RECURSIVE FieldDiff(_, _, _, _, _)
FieldDiff(c, x, y, i, acc) ==
  IF i < First THEN acc
  ELSE FieldDiff(c, x, y, i - 1, Clamp(acc * c.base + c.reg[x][i] - c.reg[y][i]))

FieldGE(c, x, y) == FieldDiff(c, x, y, Lst, 0) >= 0

\* The register an `if a >= r[f]` instruction compares A with.
GeOps == [op \in {\o30, \o31} |-> IF op = \o30 THEN C_REG ELSE B_REG]

GeTick == ArithTick /\ OpOf(Last.op) \in DOMAIN GeOps

\* C15: if a >= c[f] (if a >= b[f]) takes its branch exactly when the field
\* of A, as a number in the current base, is at least the field of C (of B),
\* and changes no nibble of A, B or C.
C15_Original ==
  GeTick =>
    /\ BranchTaken <=> FieldGE(Last.before, A_REG, GeOps[OpOf(Last.op)])
    /\ \A r \in {A_REG, B_REG, C_REG} : cpu.reg[r] = Last.before.reg[r]

\* The zero tests: the register each looks at, and whether it asks for an
\* all-zero field (TRUE) or for a non-zero nibble (FALSE).
ZeroTests ==
  [op \in {\o26, \o27, \o32, \o33} |->
     CASE op = \o26 -> <<B_REG, TRUE>>
       [] op = \o27 -> <<C_REG, TRUE>>
       [] op = \o32 -> <<A_REG, FALSE>>
       [] op = \o33 -> <<C_REG, FALSE>>]

ZeroTestTick == ArithTick /\ OpOf(Last.op) \in DOMAIN ZeroTests

\* Every nibble of register r inside the window was 0 when the tick started.
FieldAllZero(r) == \A i \in 0..(REG_SIZE - 1) : InField(i) => Last.before.reg[r][i] = 0

\* C16: if b[f] = 0 and if c[f] = 0 take the branch exactly when every
\* nibble of the register inside the field is 0, if a[f] # 0 and if c[f] # 0
\* exactly when some nibble inside the field is not 0; nibbles outside the
\* field have no influence.
C16_ZeroTests ==
  ZeroTestTick =>
    (BranchTaken <=>
       (FieldAllZero(ZeroTests[OpOf(Last.op)][1]) = ZeroTests[OpOf(Last.op)][2]))

\* if b[p] = 0 with p = 5 on B = Mix2, whose nibble 5 is 0 and whose other
\* nibbles are not all 0: the branch is taken.
C16_Witness ==
  /\ ZeroTestTick
  /\ Last.op = arith(\o26, F_P)
  /\ Last.before.p = 5
  /\ Last.before.reg[B_REG] = Mix2
  /\ Last.before.reg[B_REG][4] # 0
  /\ BranchTaken

\* The tick of the last step run again from the same state with the
\* instruction word op in place of the one that was executed.
AltRun(op) ==
  v_processor_tick(Work(Last.before),
                   ((Last.before.pc :> op) @@ rom) @@ (NextAddr(Last.before.pc) :> 128))
AltTaken(op) == NextAddr(Last.before.pc) \in AltRun(op).obs.reads

\* The test of C that asks the opposite question over the same field.
Opposite(op) == arith(IF OpOf(op) = \o27 THEN \o33 ELSE \o27, FieldOf(op))

\* C17: of if c[f] = 0 and if c[f] # 0 evaluated on the same state exactly one
\* takes its branch, and v_reg_test_eq and v_reg_test_ne against zero leave
\* opposite values of CARRY for every register and every window, the empty
\* one included.
C17_ExactlyOne ==
  /\ (ArithTick /\ OpOf(Last.op) \in {\o27, \o33}) =>
       (BranchTaken # AltTaken(Opposite(Last.op)))
  /\ ArithTick =>
       \A r \in {A_REG, B_REG, C_REG} :
         v_reg_test_eq(Work(cpu), r, NULL).flags[CARRY]
           # v_reg_test_ne(Work(cpu), r, NULL).flags[CARRY]

\* The empty window (field P with p = REG_SIZE): if c[p] = 0 takes its
\* branch and if c[p] # 0 does not.
C17_Witness ==
  /\ ArithTick
  /\ Last.op = arith(\o27, F_P)
  /\ Last.before.p = REG_SIZE
  /\ cpu.first > cpu.last
  /\ BranchTaken
  /\ ~AltTaken(Opposite(Last.op))

\* The adds of two registers: the register R that is also the destination,
\* and the other operand.
AddZeroOps ==
  [op \in {\o11, \o12, \o14} |->
     CASE op = \o11 -> <<A_REG, B_REG>>
       [] op = \o12 -> <<A_REG, C_REG>>
       [] op = \o14 -> <<C_REG, A_REG>>]

\* The subtracts of two registers: the destination and the two operands.
SubEqualOps ==
  [op \in {\o20, \o21, \o34} |->
     CASE op = \o20 -> <<A_REG, A_REG, B_REG>>
       [] op = \o21 -> <<C_REG, A_REG, C_REG>>
       [] op = \o34 -> <<A_REG, A_REG, C_REG>>]

\* Registers x and y held the same nibbles inside the window when the tick
\* started.
FieldEqual(x, y) ==
  \A i \in 0..(REG_SIZE - 1) : InField(i) => Last.before.reg[x][i] = Last.before.reg[y][i]

\* The last tick added a register that is zero in the field to R.
AddZeroTick ==
  /\ ArithTick
  /\ OpOf(Last.op) \in DOMAIN AddZeroOps
  /\ FieldAllZero(AddZeroOps[OpOf(Last.op)][2])

\* The last tick subtracted a register from one equal to it in the field.
SubEqualTick ==
  /\ ArithTick
  /\ OpOf(Last.op) \in DOMAIN SubEqualOps
  /\ FieldEqual(SubEqualOps[OpOf(Last.op)][2], SubEqualOps[OpOf(Last.op)][3])

\* C18: adding a register that is zero in the field to R leaves R unchanged
\* and carry 0; subtracting a register from one equal to it in the field
\* leaves zero in the field of the destination and carry 0.
C18_Original ==
  /\ AddZeroTick =>
       /\ cpu.reg[AddZeroOps[OpOf(Last.op)][1]]
            = Last.before.reg[AddZeroOps[OpOf(Last.op)][1]]
       /\ cpu.flags[PREV_CARRY] = 0
  /\ SubEqualTick =>
       /\ \A i \in 0..(REG_SIZE - 1) :
            InField(i) => cpu.reg[SubEqualOps[OpOf(Last.op)][1]][i] = 0
       /\ cpu.flags[PREV_CARRY] = 0

\* The registers an arithmetic-class operation writes: both registers of an
\* exchange, none for a test.
Dest(i_op) ==
  CASE i_op \in {\o00, \o05, \o11, \o12, \o15, \o16, \o20, \o22, \o34, \o35} -> {A_REG}
    [] i_op \in {\o01, \o03, \o36} -> {B_REG}
    [] i_op \in {\o06, \o10, \o13, \o14, \o17, \o21, \o23, \o24, \o25, \o37} -> {C_REG}
    [] i_op = \o02 -> {A_REG, B_REG}
    [] i_op = \o04 -> {A_REG, C_REG}
    [] i_op = \o07 -> {B_REG, C_REG}
    [] i_op \in {\o26, \o27, \o30, \o31, \o32, \o33} -> {}

\* C19: an arithmetic-class instruction changes no nibble outside its window
\* in any register, and no nibble at all in a register that is not a
\* destination of the operation; the data registers are left alone too.
C19_FieldScoped ==
  ArithTick =>
    LET D == Dest(OpOf(Last.op))
    IN /\ \A r \in RegNames \ D : cpu.reg[r] = Last.before.reg[r]
       /\ \A r \in D : \A i \in 0..(REG_SIZE - 1) :
            ~InField(i) => cpu.reg[r][i] = Last.before.reg[r][i]
       /\ cpu.ram = Last.before.ram

\* a exch c[p] with p = 5 on A = Mix1 and C = Nines: nibble 5 is exchanged,
\* its neighbours are not.
C19_Witness ==
  /\ ArithTick
  /\ Last.op = arith(\o04, F_P)
  /\ Last.before.p = 5
  /\ Last.before.reg[A_REG] = Mix1
  /\ Last.before.reg[C_REG] = Nines
  /\ cpu.reg[A_REG] = [Mix1 EXCEPT ![5] = 9]
  /\ cpu.reg[C_REG] = [Nines EXCEPT ![5] = Mix1[5]]

\* The register a shift right instruction shifts.
ShrOps ==
  [op \in {\o35, \o36, \o37} |->
     CASE op = \o35 -> A_REG [] op = \o36 -> B_REG [] op = \o37 -> C_REG]

\* C20: shift right r[f] moves every nibble of the field one place down and
\* clears nibble last; shift left a[f] moves every nibble of the field one
\* place up and clears nibble first; both leave CARRY and PREV_CARRY 0.
C20_Shift ==
  /\ (ArithTick /\ OpOf(Last.op) \in DOMAIN ShrOps) =>
       /\ \A i \in 0..(REG_SIZE - 1) :
            InField(i) =>
              cpu.reg[ShrOps[OpOf(Last.op)]][i] =
                (IF i = Lst THEN 0 ELSE Last.before.reg[ShrOps[OpOf(Last.op)]][i + 1])
       /\ cpu.flags[CARRY] = 0
       /\ cpu.flags[PREV_CARRY] = 0
  /\ (ArithTick /\ OpOf(Last.op) = \o16) =>
       /\ \A i \in 0..(REG_SIZE - 1) :
            InField(i) =>
              cpu.reg[A_REG][i] = (IF i = First THEN 0 ELSE Last.before.reg[A_REG][i - 1])
       /\ cpu.flags[CARRY] = 0
       /\ cpu.flags[PREV_CARRY] = 0

\* shift left a[m] on A = Mix1: nibbles 3..12 move up, nibble 3 is 0, and
\* the exponent and the sign stay.
C20_Witness ==
  /\ ArithTick
  /\ Last.op = arith(\o16, F_M)
  /\ Last.before.reg[A_REG] = Mix1
  /\ cpu.reg[A_REG][3] = 0
  /\ cpu.reg[A_REG][4] = Mix1[3]
  /\ cpu.reg[A_REG][12] = Mix1[11]
  /\ cpu.reg[A_REG][4] # cpu.reg[A_REG][12]
  /\ cpu.reg[A_REG][13] = Mix1[13]
  /\ cpu.flags[PREV_CARRY] = 0

\* ------------------------------------------------------ keyboard programs
MaxKeyTicks == 2

\* The host latches the key code and whether the key is held.
set_key(h, keycode, down) == [h EXCEPT !.keycode = keycode, !.keydown = down]

\* Key codes the host may latch: a key of the keypad, and a value larger
\* than the ROM.
Keycodes == {19, 4000}

SetKey ==
  /\ \E k \in Keycodes, d \in {0, 1} : cpu' = set_key(cpu, k, d)
  /\ UNCHANGED <<rom, hist>>

keys_to_rom_address == \o0020
p_minus_1           == \o0620
p_plus_1            == \o0720
p_set(n)            == n * 64 + \o74

\* Programs that move pc, sp and p to the ends of their ranges.
KeyInstrs ==
  { keys_to_rom_address, select_rom(13), select_rom(15), delayed_select_rom(15),
    jsb(0), jsb(255), return, if_nc_goto(0), if_nc_goto(255),
    p_minus_1, p_plus_1, p_set(0), load(1), if_p_eq(11), if_p_ne(11) }

\* Branch words at the ends of the range of a ROM word.
KeyTargets == {0, 1023}

NextKeys ==
  \/ Tick(KeyInstrs, KeyTargets, MaxKeyTicks)
  \/ SetKey

SpecKeys == Init /\ [][NextKeys]_vars

\* C11: after any tick, for every ROM content and every key code the host
\* latched, 0 <= sp < STACK_SIZE, 0 <= pc < ROM_SIZE and 0 <= p <= 14; jsb
\* and return move sp by one modulo STACK_SIZE.
C11_Ranges ==
  /\ cpu.sp \in 0..(STACK_SIZE - 1)
  /\ cpu.pc \in 0..(ROM_SIZE - 1)
  /\ cpu.p \in 0..14
  /\ (Ticked /\ IsJsb(Last.op)) => cpu.sp = (Last.before.sp + 1) % STACK_SIZE
  /\ (Ticked /\ Last.op = return) => cpu.sp = (Last.before.sp - 1) % STACK_SIZE

\* keys -> rom address with a key code beyond the ROM latched, after a
\* return on the empty stack has wrapped sp: pc is back at 0.
C11_Witness ==
  /\ Len(hist) = 2
  /\ hist[1].op = return
  /\ hist[1].before.sp = 0
  /\ hist[2].before.sp = STACK_SIZE - 1
  /\ Last.op = keys_to_rom_address
  /\ Last.before.keycode = 4000
  /\ cpu.pc = 0

\* ------------------------------------------------------------ load n
MaxLoadTicks == 5

\* Constant-loading programs: p = 13, p = 0 and p = 14 by way of the P-set
\* table, three loads, and c + 1 -> c[w].
LoadInstrs ==
  { p_set(10), p_set(12), p_set(0), load(9), load(8), load(7), arith(\o17, F_W) }

NextLoad == Tick(LoadInstrs, {128}, MaxLoadTicks)

SpecLoad == Init /\ [][NextLoad]_vars

IsLoad(op) == IsSpecial(op) /\ Group(op) = 2 /\ SubGroup(op) = 1

\* The last tick was c + 1 -> c[w].
IncTick == Ticked /\ Last.op = arith(\o17, F_W)

\* C21: load n started with p in 0..13 stores n in nibble p of C and changes
\* no other nibble of any register or data register; it leaves p one lower,
\* 13 when p was 0; and c + 1 -> c[w] in decimal mode adds one to the whole
\* 14-nibble word, leaving p alone.
C21_Load ==
  /\ (Ticked /\ IsLoad(Last.op)) =>
       /\ cpu.p = IF Last.before.p = 0 THEN 13 ELSE Last.before.p - 1
       /\ Last.before.p \in 0..13 =>
            /\ cpu.reg = [Last.before.reg EXCEPT ![C_REG][Last.before.p] = Last.op \div 64]
            /\ cpu.ram = Last.before.ram
  /\ IncTick =>
       /\ cpu.p = Last.before.p
       /\ cpu.first = 0 /\ cpu.last = 13
       /\ New(C_REG) = Plus(Old(C_REG), One)
\* Scenario 1: from p = 13, load 9; load 8; load 7 leave p = 10 with 9, 8, 7
\* in nibbles 13, 12, 11, and c + 1 -> c[w] then makes nibble 0 one, without
\* a carry.
C21_Witness ==
  /\ Len(hist) = 5
  /\ hist[1].op = p_set(10) /\ hist[2].before.p = 13
  /\ hist[2].op = load(9) /\ hist[3].op = load(8) /\ hist[4].op = load(7)
  /\ hist[5].before.p = 10
  /\ hist[5].op = arith(\o17, F_W)
  /\ cpu.p = 10
  /\ cpu.reg[C_REG][13] = 9 /\ cpu.reg[C_REG][12] = 8 /\ cpu.reg[C_REG][11] = 7
  /\ cpu.reg[C_REG][0] = 1
  /\ Last.obs.carry = 0

\* ------------------------------------------------------------ the pointer
MaxPTicks == 2

\* Pointer programs: every p = n, if p = n and if p # n word, and the two
\* pointer steps.
PInstrs ==
  { p_set(k) : k \in 0..15 } \cup { if_p_eq(k) : k \in 0..15 } \cup
  { if_p_ne(k) : k \in 0..15 } \cup { p_minus_1, p_plus_1 }

NextP == Tick(PInstrs, {128}, MaxPTicks)

SpecP == Init /\ [][NextP]_vars

IsPSet(op) == IsSpecial(op) /\ Group(op) = 3 /\ SubGroup(op) = 3
IsPEq(op)  == IsSpecial(op) /\ Group(op) = 1 /\ SubGroup(op) = 2
IsPNe(op)  == IsSpecial(op) /\ Group(op) = 3 /\ SubGroup(op) = 2

\* The tables as the specification prints them, entry k at position k + 1.
PSetTable  == <<14, 4, 7, 8, 11, 2, 10, 12, 1, 3, 13, 6, 0, 9, 5, 14>>
PTestTable == <<4, 8, 12, 2, 9, 1, 6, 3, 1, 13, 5, 0, 11, 10, 7, 4>>

\* The opcodes the source's comment documents for p = n, with the value each
\* is said to give p.
PSetDocumented ==
  << <<\o1474, 0>>, <<\o1074, 1>>, <<\o0574, 2>>, <<\o1174, 3>>, <<\o0174, 4>>,
     <<\o1674, 5>>, <<\o1374, 6>>, <<\o0274, 7>>, <<\o0374, 8>>, <<\o1574, 9>>,
     <<\o0674, 10>>, <<\o0474, 11>>, <<\o0774, 12>>, <<\o1274, 13>> >>

\* C22: p = n leaves p equal to entry k of the P-set table, k being bits 6-9
\* of the opcode, and each documented opcode gives p its documented value.
C22_PSet ==
  (Ticked /\ IsPSet(Last.op)) =>
    /\ cpu.p = PSetTable[(Last.op \div 64) + 1]
    /\ \A j \in 1..Len(PSetDocumented) :
         Last.op = PSetDocumented[j][1] => cpu.p = PSetDocumented[j][2]

\* 01274 executed with p = 4 makes p 13.
C22_Witness ==
  /\ Ticked2
  /\ Last.op = \o1274
  /\ Last.before.p = 4
  /\ cpu.p = 13

\* C23: if p = n takes its branch exactly when p equals entry k of the P-test
\* table, if p # n exactly when p differs from it; a taken branch goes to the
\* branch word, a declined one to the word after it, and p is unchanged.
C23_PTest ==
  (Ticked /\ (IsPEq(Last.op) \/ IsPNe(Last.op))) =>
    /\ IsPEq(Last.op) =>
         (BranchTaken <=> Last.before.p = PTestTable[(Last.op \div 64) + 1])
    /\ IsPNe(Last.op) =>
         (BranchTaken <=> Last.before.p # PTestTable[(Last.op \div 64) + 1])
    /\ cpu.pc = IF BranchTaken THEN BranchWord
                ELSE NextAddr(NextAddr(Last.before.pc))
    /\ cpu.p = Last.before.p

\* With p = 13, if p = n with k = 9 (entry 13) takes its branch.
C23_Witness ==
  /\ Ticked2
  /\ Last.op = if_p_eq(9)
  /\ Last.before.p = 13
  /\ BranchTaken
  /\ cpu.pc = 128
  /\ cpu.p = 13

\* ------------------------------------------------------------ status bits
MaxStatusTicks == 2

clear_s == \o0110

\* Status programs: sticky and ordinary bits set and cleared one at a time
\* and all at once, while the host presses and releases keys.
StatusInstrs ==
  { set_s(1), set_s(2), set_s(15), set_s(7), clear_s,
    clr_s(1), clr_s(2), clr_s(5), clr_s(15), clr_s(3), clr_s(7) }

NextStatus == Tick(StatusInstrs, {128}, MaxStatusTicks) \/ SetKey

SpecStatus == Init /\ [][NextStatus]_vars

Sticky == {1, 2, 5, 15}

\* C24: clear s leaves each of the bits 1, 2, 5 and 15 as it was and every
\* other status bit 0.
C24_ClearS ==
  (Ticked /\ Last.op = clear_s) =>
    cpu.status = [i \in 0..15 |-> IF i \in Sticky THEN Last.before.status[i] ELSE 0]

\* clear s with bits 1, 3 and 5 set: 1 and 5 stay set, 3 is cleared.
C24_Witness ==
  /\ Ticked
  /\ Last.op = clear_s
  /\ Last.before.status[1] = 1 /\ Last.before.status[3] = 1 /\ Last.before.status[5] = 1
  /\ cpu.status[1] = 1 /\ cpu.status[3] = 0 /\ cpu.status[5] = 1

IsClrS(op) == IsSpecial(op) /\ Group(op) = 3 /\ SubGroup(op) = 0

\* The last tick was 0 -> s(n) executed while a key was held.
ClrSHeld == Ticked /\ IsClrS(Last.op) /\ Last.before.keydown = 1

\* C25 as stated: while a key is held, 0 -> s(n) keeps bit n for n in
\* {1, 2, 5, 15} and clears it for any other n.
C25_Original ==
  ClrSHeld =>
    cpu.status[Last.op \div 64] =
      IF (Last.op \div 64) \in Sticky THEN Last.before.status[Last.op \div 64] ELSE 0

\* C25: while a key is held, 0 -> s(n) changes no status bit when n is 5 or
\* 15, and for every other n, 1 and 2 included, clears bit n and only bit n.
C25_ClearBitHeld ==
  ClrSHeld =>
    cpu.status =
      IF (Last.op \div 64) \in {5, 15} THEN Last.before.status
      ELSE [Last.before.status EXCEPT ![Last.op \div 64] = 0]

\* 0 -> s(15) with bit 15 set and a key held: bit 15 stays set.
C25_Witness ==
  /\ ClrSHeld
  /\ Last.op = clr_s(15)
  /\ Last.before.status[15] = 1
  /\ cpu.status[15] = 1

\* ------------------------------------------------------------ reset
MaxResetTicks == 4

\* What the history records as the operation of a reset; no instruction
\* word has this value.
ResetMark == 1024

display_toggle == \o0210

\* The host reinitialises the processor: v_processor_init on the processor
\* as it stands.  The ROM keeps its content.
Reset ==
  /\ Len(hist) < MaxResetTicks
  /\ cpu' = Proc(v_processor_init(Work(cpu)))
  /\ rom' = rom
  /\ hist' = Append(hist, [before |-> cpu, op |-> ResetMark, obs |-> NoObs])

\* Programs that move the fields reset assigns away from their reset values.
ResetInstrs ==
  { load(9), binary, jsb(80), delayed_select_rom(2), set_s(7), clr_s(3),
    arith(\o15, F_W), p_set(1), display_toggle }

NextReset == Tick(ResetInstrs, {128}, MaxResetTicks) \/ Reset

SpecReset == Init /\ [][NextReset]_vars

\* C26: after a reset every nibble of the eight registers and of the data
\* registers is 0, status is 0 but for bits 3 and 5, the flags are 0 but for
\* MODE, base is 10 and pc, sp and p are 0.
C26_Reset ==
  (Ticked /\ Last.op = ResetMark) =>
    /\ cpu.reg = [r \in RegNames |-> ZeroReg]
    /\ cpu.ram = [i \in 0..(DATA_REGISTERS - 1) |-> ZeroReg]
    /\ cpu.status = [i \in 0..15 |-> IF i \in {3, 5} THEN 1 ELSE 0]
    /\ cpu.flags = [g \in FlagNames |-> IF g = MODE THEN 1 ELSE 0]
    /\ cpu.base = 10
    /\ cpu.pc = 0 /\ cpu.sp = 0 /\ cpu.p = 0

\* A reset in hexadecimal mode, inside a subroutine, with A not zero.
C26_Witness ==
  /\ Ticked
  /\ Last.op = ResetMark
  /\ Last.before.base = 16
  /\ Last.before.sp = 1 /\ Last.before.pc # 0
  /\ Last.before.reg[A_REG][0] = 1
  /\ cpu.base = 10 /\ cpu.sp = 0 /\ cpu.pc = 0
  /\ cpu.reg[A_REG][0] = 0

\* ------------------------------------------------------------ decoder faults
MaxFaultTicks == 3

\* Words the decoder has no case for: group 0 subgroup 1 and subgroup 3,
\* group 2 subgroups 0, 2 and 3.
FaultWords == { \o0120, \o0060, \o1510, \o0050, \o0070 }

\* Fault programs: the undecodable words among instructions that leave a
\* carry, a pending ROM selection, a return address and a loaded nibble, and
\* if nc goto with every value of the two bits above the class bits.
FaultInstrs ==
  FaultWords \cup
  { nop, arith(\o22, F_W), delayed_select_rom(2), jsb(80), load(9),
    if_nc_goto(72), if_nc_goto(1), if_nc_goto(2), if_nc_goto(3) }

NextFault == Tick(FaultInstrs, {128}, MaxFaultTicks)

SpecFault == Init /\ [][NextFault]_vars

\* Tick k met a word the decoder has no case for.
OpcodeFault(k) == hist[k].op \in FaultWords /\ hist[k].obs.error > 0

\* C27 as stated: a tick that meets an undecodable word halts the processor
\* on it: pc stays at the faulting word and no later tick runs.
C27_Original ==
  \A k \in 1..Len(hist) :
    OpcodeFault(k) => (k = Len(hist) /\ cpu.pc = hist[k].before.pc)

\* C28 as stated: a tick that meets an undecodable word leaves the registers,
\* the data registers, status, p, f, base, sp, the return stack, the delayed
\* bank, DELAYED_ROM and PREV_CARRY as they were.
C28_Original ==
  (Ticked /\ OpcodeFault(Len(hist))) =>
    /\ cpu.reg = Last.before.reg
    /\ cpu.ram = Last.before.ram
    /\ cpu.status = Last.before.status
    /\ cpu.p = Last.before.p
    /\ cpu.f = Last.before.f
    /\ cpu.base = Last.before.base
    /\ cpu.sp = Last.before.sp
    /\ cpu.stack = Last.before.stack
    /\ cpu.delayed_rom_number = Last.before.delayed_rom_number
    /\ cpu.flags[DELAYED_ROM] = Last.before.flags[DELAYED_ROM]
    /\ cpu.flags[PREV_CARRY] = Last.before.flags[PREV_CARRY]

\* The two bits above the class bits of a word.
NextBits(op) == (op \div 4) % 4

MaxSelectTicks == 3

\* Page programs: every select rom, and subroutine calls to the last three
\* words of a page.
SelectInstrs ==
  { select_rom(k) : k \in 0..15 } \cup { jsb(253), jsb(254), jsb(255), nop }

NextSelect == Tick(SelectInstrs, {128}, MaxSelectTicks)

SpecSelect == Init /\ [][NextSelect]_vars

IsSelectRom(op) == IsSpecial(op) /\ Group(op) = 0 /\ SubGroup(op) = 2

\* The last two ticks executed the same select rom k, one after the other.
SelectTwice == Ticked2 /\ IsSelectRom(Prev.op) /\ Last.op = Prev.op

\* C30 as stated: after select rom k and then select rom k again, the bits
\* of pc above the low 8 are what they were after the first, wherever in its
\* page the first one sits.
C30_Original == SelectTwice => Page(cpu.pc) = Page(Last.before.pc)

\* C30: the same, when the first select rom k sits at an offset of at most
\* 0xFD in its page.
C30_SelectTwice ==
  (SelectTwice /\ Offset(Prev.before.pc) <= 253) =>
    Page(cpu.pc) = Page(Last.before.pc)

\* select rom 3 at offset 0xFD of page 0 and again at offset 0xFE of page 3:
\* pc is on page 3 after each.
C30_Witness ==
  /\ SelectTwice
  /\ Prev.op = select_rom(3)
  /\ Prev.before.pc = 253
  /\ Last.before.pc = 3 * 256 + 254
  /\ cpu.pc = 3 * 256 + 255

\* ------------------------------------------------------------ key dispatch
MaxKeyJumpTicks == 2

\* The host latches a pressed key: the lowest and the highest key code a
\* page has a word for, and one in between.
PressKey ==
  /\ \E k \in {1, 19, 255} : cpu' = set_key(cpu, k, 1)
  /\ UNCHANGED <<rom, hist>>

\* Dispatch programs: keys -> rom address on the first and the last page and
\* inside a subroutine, with a nibble loaded, a status bit set and a ROM
\* selection pending.
KeyJumpInstrs ==
  { keys_to_rom_address, select_rom(13), jsb(200), load(9), set_s(7),
    delayed_select_rom(2) }

NextKeyJump == Tick(KeyJumpInstrs, {128}, MaxKeyJumpTicks) \/ PressKey

SpecKeyJump == Init /\ [][NextKeyJump]_vars

\* The last tick was keys -> rom address with a key code of 1..255 latched.
KeyJump ==
  Ticked /\ Last.op = keys_to_rom_address /\ Last.before.keycode \in 1..255

\* C31: keys -> rom address with a key code of 1..255 latched leaves pc at
\* the first word of the current page plus the key code, and changes no
\* register, data register, status bit, stack entry, sp or p.
C31_KeyJump ==
  KeyJump =>
    /\ cpu.pc = Page(Last.before.pc) + Last.before.keycode
    /\ cpu.reg = Last.before.reg
    /\ cpu.ram = Last.before.ram
    /\ cpu.status = Last.before.status
    /\ cpu.stack = Last.before.stack
    /\ cpu.sp = Last.before.sp
    /\ cpu.p = Last.before.p

\* Key code 255 dispatched from the first word of page 13: pc is the last
\* word of the ROM.
C31_Witness ==
  /\ KeyJump
  /\ Last.before.pc = 13 * 256 + 1
  /\ Last.before.keycode = 255
  /\ cpu.pc = ROM_SIZE - 1

\* ------------------------------------------------------------ the stack registers
MaxRotTicks == 4

down_rotate == \o1110

\* The processor after a program has filled C, Y, Z and T (by load n and
\* c -> stack) and A and M.
RotStarts ==
  { [Proc(h_processor_create) EXCEPT
       !.reg[C_REG] = t[1], !.reg[Y_REG] = t[2], !.reg[Z_REG] = t[3],
       !.reg[T_REG] = t[4], !.reg[A_REG] = Mix2, !.reg[M_REG] = LowTen] :
    t \in { <<Mix1, Mix2, Nines, LowTen>>,
            <<Zeros, Zeros, Mix1, Mix1>>,
            <<Nines, Zeros, Zeros, Zeros>> } }

InitRot ==
  /\ cpu \in RotStarts
  /\ rom = << >>
  /\ hist = << >>

\* Stack programs: down rotate, c -> stack (01310), stack -> a (01010),
\* y -> a (01210), m1 exch c (00410) and c + 1 -> c[w].
RotInstrs == { down_rotate, \o1310, \o1010, \o1210, \o0410, arith(\o17, F_W) }

NextRot == Tick(RotInstrs, {128}, MaxRotTicks)

SpecRot == InitRot /\ [][NextRot]_vars

\* The last four ticks were all down rotate.
FourRotates ==
  /\ Len(hist) >= 4
  /\ \A k \in 0..3 : hist[Len(hist) - k].op = down_rotate

\* C32: down rotate makes C the old Y, Y the old Z, Z the old T and T the old
\* C over all fourteen nibbles and leaves A, B, M and N alone; after four of
\* them in a row every register is what it was before the first.
C32_DownRotate ==
  /\ (Ticked /\ Last.op = down_rotate) =>
       cpu.reg = [Last.before.reg EXCEPT
                    ![C_REG] = Last.before.reg[Y_REG],
                    ![Y_REG] = Last.before.reg[Z_REG],
                    ![Z_REG] = Last.before.reg[T_REG],
                    ![T_REG] = Last.before.reg[C_REG]]
  /\ FourRotates => cpu.reg = hist[Len(hist) - 3].before.reg

\* Four down rotates of four different words: the fourth starts with the
\* first T in C and ends with every word back in place.
C32_Witness ==
  /\ FourRotates
  /\ hist[Len(hist) - 3].before.reg[C_REG] = Mix1
  /\ hist[Len(hist) - 3].before.reg[Y_REG] = Mix2
  /\ hist[Len(hist) - 3].before.reg[Z_REG] = Nines
  /\ hist[Len(hist) - 3].before.reg[T_REG] = LowTen
  /\ Last.before.reg[C_REG] = LowTen
  /\ cpu.reg[C_REG] = Mix1 /\ cpu.reg[Y_REG] = Mix2
  /\ cpu.reg[Z_REG] = Nines /\ cpu.reg[T_REG] = LowTen

\* ------------------------------------------------------------ trace
\* The processor c with the TRACE flag the other way round.
Twin(c) == [c EXCEPT !.flags[TRACE] = 1 - @]

\* The processor as tick k left it.
StateAfter(k) == IF k = Len(hist) THEN cpu ELSE hist[k + 1].before

\* Tick k run again on the twin of the processor it started from, with the
\* same ROM and the same latched key.
TwinTick(k) == v_processor_tick(Work(Twin(hist[k].before)), rom)

\* C33: a processor that differs from this one only in the TRACE flag and
\* runs the same ROM differs from it only in the TRACE flag after every
\* tick; what differs is whether the tick wrote to the trace stream.
C33_TraceNeutral ==
  \A k \in 1..Len(hist) :
    /\ Proc(TwinTick(k)) = Twin(StateAfter(k))
    /\ hist[k].obs.trace = 0
    /\ TwinTick(k).obs.trace = 2

\* Three ticks, the last one a taken test: the traced twin wrote its two
\* lines in each and is at the same branch target.
C33_Witness ==
  /\ Len(hist) = 3
  /\ IsTest(Last.op)
  /\ BranchTaken
  /\ cpu.flags[TRACE] = 0
  /\ TwinTick(3).flags[TRACE] = 1
  /\ TwinTick(3).obs.trace = 2
  /\ TwinTick(3).pc = cpu.pc
  /\ cpu.pc = BranchWord

\* ------------------------------------------------------------ declined tests
\* The last tick was a test instruction whose condition was false.
TestDeclined == Ticked /\ IsTest(Last.op) /\ ~TestTrue(Last, cpu.first, cpu.last)

\* C34: a test whose condition is false leaves pc two words on (as
\* v_op_inc_pc counts, so past the branch word), reads no ROM cell but its
\* own, and leaves a pending delayed ROM selection pending with its bank.
C34_Declined ==
  TestDeclined =>
    /\ cpu.pc = NextAddr(NextAddr(Last.before.pc))
    /\ Last.obs.reads = {Last.before.pc}
    /\ Last.obs.commit = -1
    /\ cpu.flags[DELAYED_ROM] = Last.before.flags[DELAYED_ROM]
    /\ cpu.delayed_rom_number = Last.before.delayed_rom_number

\* if 1 = s(4) with bit 4 clear and bank 2 pending: pc is two words on and
\* bank 2 is still pending.
C34_Witness ==
  /\ TestDeclined
  /\ Last.op = if_1_s(4)
  /\ Last.before.flags[DELAYED_ROM] = 1
  /\ Last.before.delayed_rom_number = 2
  /\ cpu.pc = Last.before.pc + 2
  /\ cpu.flags[DELAYED_ROM] = 1

\* ------------------------------------------------------------ declined if nc goto
\* C35 as stated: if nc goto executed with PREV_CARRY = 1 moves pc to the
\* next word and commits nothing: DELAYED_ROM and the bank keep their values.
C35_Original ==
  (Ticked /\ IsIfNcGoto(Last.op) /\ Last.before.flags[PREV_CARRY] = 1) =>
    /\ cpu.pc = NextAddr(Last.before.pc)
    /\ Last.obs.commit = -1
    /\ cpu.flags[DELAYED_ROM] = Last.before.flags[DELAYED_ROM]
    /\ cpu.delayed_rom_number = Last.before.delayed_rom_number

\* ------------------------------------------------------------ subroutines
MaxCallTicks == 5

clear_registers == \o0010

\* Subroutine programs: calls to two addresses, return, clear registers and
\* an instruction that leaves a mark in a register.
CallInstrs == { jsb(80), jsb(16), return, clear_registers, load(9) }

NextCall == Tick(CallInstrs, {128}, MaxCallTicks)

SpecCall == Init /\ [][NextCall]_vars

IsReturn(k) == hist[k].op = return
IsCall(k)   == IsJsb(hist[k].op)

\* Ticks i..j contain as many calls as returns and never more returns than
\* calls so far: a balanced stretch of the program.
RECURSIVE Balanced(_, _, _)
Balanced(i, j, depth) ==
  IF i > j THEN depth = 0
  ELSE IF IsCall(i) THEN Balanced(i + 1, j, depth + 1)
  ELSE IF IsReturn(i) THEN depth > 0 /\ Balanced(i + 1, j, depth - 1)
  ELSE Balanced(i + 1, j, depth)

\* The deepest nesting of calls in ticks i..j, entered at depth `depth`.
RECURSIVE Deepest(_, _, _)
Deepest(i, j, depth) ==
  IF i > j THEN depth
  ELSE LET d == IF IsCall(i) THEN depth + 1
                ELSE IF IsReturn(i) THEN depth - 1 ELSE depth
           rest == Deepest(i + 1, j, d)
       IN IF rest > depth THEN rest ELSE depth

\* Tick j is the return that matches the call of tick i.
Matches(i, j) ==
  /\ i < j /\ j <= Len(hist)
  /\ IsCall(i) /\ IsReturn(j)
  /\ Balanced(i + 1, j - 1, 0)

\* Only calls and returns were executed in ticks i..j.
OnlyCalls(i, j) == \A k \in i..j : IsCall(k) \/ IsReturn(k)

\* The return of the last tick had no call to match: as many returns as
\* calls came before it, in balance.
Unmatched ==
  /\ Ticked /\ IsReturn(Len(hist))
  /\ Balanced(1, Len(hist) - 1, 0)
  /\ OnlyCalls(1, Len(hist))

\* C36: with calls nested no deeper than STACK_SIZE and nothing but calls and
\* returns in between, the return that matches a call resumes at the word
\* after the call and leaves sp as it was before the call; a return with no
\* call to match takes sp from 0 to STACK_SIZE - 1 and resumes at the word
\* after the address held in that stack slot.
C36_CallReturn ==
  /\ \A i \in 1..Len(hist) :
       (/\ Matches(i, Len(hist))
        /\ OnlyCalls(i, Len(hist))
        /\ Deepest(i, Len(hist), 0) <= STACK_SIZE) =>
         /\ cpu.pc = NextAddr(hist[i].before.pc)
         /\ cpu.sp = hist[i].before.sp
  /\ Unmatched =>
       /\ Last.before.sp = 0
       /\ cpu.sp = STACK_SIZE - 1
       /\ cpu.pc = NextAddr(Last.before.stack[STACK_SIZE - 1])

\* jsb 80 at 0, jsb 16 at 80, return to 81, return to 1: two calls deep and
\* back, sp 0 again.
C36_Witness ==
  /\ Len(hist) = 4
  /\ hist[1].op = jsb(80) /\ hist[2].op = jsb(16)
  /\ hist[3].op = return /\ hist[4].op = return
  /\ hist[4].before.pc = 81
  /\ cpu.pc = 1
  /\ cpu.sp = 0

\* C37 as stated: clear registers zeroes the eight registers and leaves the
\* return stack and sp as they were, and a return that follows it inside a
\* subroutine one call deep resumes at the word after the call.
C37_Original ==
  /\ (Ticked /\ Last.op = clear_registers) =>
       /\ cpu.reg = [r \in RegNames |-> ZeroReg]
       /\ cpu.stack = Last.before.stack
       /\ cpu.sp = Last.before.sp
  /\ \A i \in 1..Len(hist) :
       (/\ Matches(i, Len(hist))
        /\ \A k \in (i + 1)..(Len(hist) - 1) : hist[k].op = clear_registers) =>
         cpu.pc = NextAddr(hist[i].before.pc)

\* ------------------------------------------------------------ 0 -> s(n), frame
\* C38 as stated: 0 -> s(n) changes no status bit other than bit n, whether
\* or not a key is held; 0 -> s(5) in particular leaves bit 15 alone.
C38_Original ==
  (Ticked /\ IsClrS(Last.op)) =>
    \A i \in 0..15 :
      i # Last.op \div 64 => cpu.status[i] = Last.before.status[i]

\* ------------------------------------------------------------ nibble indices
\* The last tick was an arithmetic instruction over the P or the WP field
\* started with p = REG_SIZE.
PFieldAtEnd ==
  /\ Ticked /\ IsArith(Last.op)
  /\ (Last.op \div 4) % 8 \in {F_P, F_WP}
  /\ Last.before.p = REG_SIZE

\* C39 as stated: no tick addresses a register nibble outside 0..13; with
\* p = 14 a P-field or WP-field instruction signals a fault and works on a
\* window inside 0..13, and load n writes a nibble inside 0..13.
C39_Original ==
  /\ Ticked => ~Last.obs.oob
  /\ PFieldAtEnd =>
       /\ Last.obs.error > 0
       /\ cpu.last \in 0..(REG_SIZE - 1)
       /\ cpu.first > cpu.last \/ cpu.first \in 0..(REG_SIZE - 1)

\* ------------------------------------------------------------ tests, frame
\* The fields a test instruction has no business with: everything but pc,
\* the three flags CARRY, PREV_CARRY and DELAYED_ROM, and the field window
\* the decoder sets for every arithmetic-class instruction.
DataOf(c) ==
  [reg |-> c.reg, ram |-> c.ram, status |-> c.status, p |-> c.p, sp |-> c.sp,
   stack |-> c.stack, f |-> c.f, base |-> c.base, address |-> c.address,
   keycode |-> c.keycode, keydown |-> c.keydown,
   delayed_rom_number |-> c.delayed_rom_number,
   flags |-> [g \in FlagNames \ {CARRY, PREV_CARRY, DELAYED_ROM} |-> c.flags[g]]]

\* C40: a test instruction changes no status bit, register nibble, data
\* register, p, sp or stack entry, nor any other field but pc, CARRY,
\* PREV_CARRY and the decoder's field window; DELAYED_ROM changes only when
\* the branch is taken, and then to 0.
C40_TestsReadOnly ==
  (Ticked /\ IsTest(Last.op)) =>
    /\ DataOf(cpu) = DataOf(Last.before)
    /\ cpu.flags[DELAYED_ROM] =
         IF BranchTaken THEN 0 ELSE Last.before.flags[DELAYED_ROM]

\* if 1 = s(3) with bit 3 set (as reset leaves it): the branch is taken and
\* bit 3 is still set.
C40_Witness ==
  /\ Ticked
  /\ Last.op = if_1_s(3)
  /\ Last.before.status[3] = 1
  /\ BranchTaken
  /\ cpu.status[3] = 1
  /\ cpu.status = Last.before.status

====
